---- MODULE Spec2Model ----
(***************************************************************************)
(* AXWEmulator: the discrete-event backend (core/src/backend), its bus and *)
(* memory blocks, the frontend channels (core/src/utils.rs,                *)
(* core/src/frontend) and the CHIP-8 backend built on them                 *)
(* (backends/chip8).  Time is counted in nanoseconds: every Duration of    *)
(* the program is built with Duration::from_nanos / from_millis.           *)
(***************************************************************************)
EXTENDS Integers, Sequences, FiniteSets, TLC

VARIABLES
    clock,            \* Backend.clock
    components,       \* Backend.components: name -> ComponentId
    scheduler_queue,  \* Backend.scheduler_queue: the BinaryHeap's array
    mounts,           \* Backend.bus: Bus.mounts
    store,            \* the component objects behind the Rc<RefCell<..>> handles
    next_id,          \* component.rs NEXT_ID
    input_queue,      \* the input channel's ringbuffer
    frame_queue,      \* the frame channel's ringbuffer
    audio_queue,      \* the audio channel's ringbuffer
    text_queue,       \* the text channel's ringbuffer
    rng,              \* position in the random byte stream read by CXNN
    ringbuffer,       \* a Ringbuffer of utils.rs: the queue behind its Mutex,
                      \* the capacity, and who holds the lock
    callers,          \* the threads that call the Ringbuffer's operations
    adds,             \* history: the number of calls that added a component
                      \* or an input event to the backend once it was built, or
                      \* a value to the Ringbuffer
    last              \* history: the last Backend call, its arguments and outcome

vars == <<clock, components, scheduler_queue, mounts, store, next_id,
          input_queue, frame_queue, audio_queue, text_queue, rng,
          ringbuffer, callers, adds, last>>

-----------------------------------------------------------------------------
(* Bounds of the model *)

\* Backend calls to add_component / add_addressable_component in a run of Spec
MaxAdds == 3
\* the backend is not called once the clock has passed this many milliseconds,
\* in Spec
MaxClockMillis == 40
\* the same, in SpecChip8
MaxChipMillis == 17
\* the same, in SpecCpu
MaxCpuMillis == 3
\* input events the frontend adds in a run of SpecCpu
MaxInputs == 3
MaxGuestMillis == 23
MaxCapacity == 2
MaxPushes == 4
MaxBlockSize == 3
MaxWrapSteps == 3
MaxSoundMillis == 2
MaxInsMillis == 7
MaxCallMillis == 50
MaxNesting == 16

\* Duration::from_millis, in nanoseconds
Millis(n) == n * 1000000

-----------------------------------------------------------------------------
(* Program constants *)

TIMER_BASE == 256
DT_TIMER == TIMER_BASE
ST_TIMER == TIMER_BASE + 1
FONT_BASE == 80
TIMER_CLOCK_SPEED_NS == 1000000000 \div 60
AUDIO_SAMPLING_RATE == 48000
AUDIO_CLOCK_SPEED_NS == 1000000000 \div AUDIO_SAMPLING_RATE
CLOCK_SPEED_NS == 1000000000 \div 700
VBLANK_CLOCK_SPEED_NS == 1000000000 \div 60
FRAME_WIDTH == 64
FRAME_HEIGHT == 32
SIMPLE_PERIOD_NS == Millis(20)
INSTANT_START == 0
INTERPRETER_SIZE == 512
RAM_BASE == 512
RAM_SIZE == 4095 - 512
INPUT_CAPACITY == 20
FRAME_CAPACITY == 20
TEXT_CAPACITY == 20
AUDIO_CAPACITY == 5000

Ok == "Ok"
Misc == "Misc"
MemoryAccessOutOfBounds == "MemoryAccessOutOfBounds"
MemoryAccessReadOnly == "MemoryAccessReadOnly"
UnknownOpcode == "UnknownOpcode"

-----------------------------------------------------------------------------
(* Sequences and bytes *)

Range(s) == {s[k] : k \in DOMAIN s}

Min(S) == CHOOSE x \in S : \A y \in S : x <= y

\* the two's-complement operations of u8 / u16
Wrap8(n) == n % 256
Wrap16(n) == n % 65536

RECURSIVE BitAnd(_, _)
BitAnd(a, b) ==
    IF a = 0 \/ b = 0 THEN 0
    ELSE (a % 2) * (b % 2) + 2 * BitAnd(a \div 2, b \div 2)

RECURSIVE BitOr(_, _)
BitOr(a, b) ==
    IF a = 0 THEN b ELSE IF b = 0 THEN a
    ELSE (IF a % 2 = 1 \/ b % 2 = 1 THEN 1 ELSE 0) + 2 * BitOr(a \div 2, b \div 2)

RECURSIVE BitXor(_, _)
BitXor(a, b) ==
    IF a = 0 THEN b ELSE IF b = 0 THEN a
    ELSE ((a + b) % 2) + 2 * BitXor(a \div 2, b \div 2)

-----------------------------------------------------------------------------
(* utils.rs: Ringbuffer.  The queue is a sequence, oldest element first. *)

\* Ringbuffer::new(capacity); Ringbuffer::default() is RingbufferNew(0)
RingbufferNew(capacity) == [queue |-> <<>>, capacity |-> capacity, locked |-> {}]

\* self.0.lock(): the Mutex is free
MutexAlwaysFree(rb) == TRUE
MutexFree(rb) == rb.locked = {}

\* An Option is a sequence: <<>> is None, <<v>> is Some(v)
RingbufferPopBack(queue) ==
    IF queue = <<>> THEN [ret |-> <<>>, queue |-> <<>>]
    ELSE [ret |-> <<queue[Len(queue)]>>, queue |-> SubSeq(queue, 1, Len(queue) - 1)]
RingbufferPopFront(queue) ==
    IF queue = <<>> THEN [ret |-> <<>>, queue |-> <<>>]
    ELSE [ret |-> <<Head(queue)>>, queue |-> Tail(queue)]

\* self.0.lock().unwrap().drain(..).last()
RingbufferDrainAndPopLatest(queue) ==
    [ret |-> IF queue = <<>> THEN <<>> ELSE <<queue[Len(queue)]>>, queue |-> <<>>]

\* push_back: if queue.len() >= self.1 { queue.pop_front(); }
RingbufferEvict(queue, capacity) ==
    IF Len(queue) >= capacity THEN RingbufferPopFront(queue).queue ELSE queue

RingbufferPushBack(queue, capacity, value) ==
    Append(RingbufferEvict(queue, capacity), value)

-----------------------------------------------------------------------------
(* backend/memory.rs: MemoryBlock.  data holds the bytes that are not zero; *)
(* every other byte below size is zero (Vec::resize fills with 0).          *)

MemoryBlockNew(size, data) ==
    [kind |-> "MemoryBlock", read_only |-> FALSE, size |-> size, data |-> data]

\* impl From<Vec<u8>> for MemoryBlock
MemoryBlockFrom(bytes) ==
    MemoryBlockNew(Len(bytes), [a \in {k - 1 : k \in {j \in DOMAIN bytes : bytes[j] # 0}} |->
                                  bytes[a + 1]])

\* resize that never shortens the block
MemoryBlockResizeGrowOnly(m, size) ==
    IF size < m.size THEN m ELSE [m EXCEPT !.size = size]

\* MemoryBlock::resize: Vec::resize truncates or appends zeros
MemoryBlockResize(m, size) ==
    [m EXCEPT !.size = size,
              !.data = [a \in {d \in DOMAIN m.data : d < size} |-> m.data[a]]]

ByteAt(data, a) == IF a \in DOMAIN data THEN data[a] ELSE 0

\* the block's data with bytes (a sequence) copied in at address
CopyFromSlice(data, address, bytes) ==
    LET W == {address + k - 1 : k \in 1..Len(bytes)}
        New(a) == IF a \in W THEN bytes[a - address + 1] ELSE data[a]
        D == {a \in DOMAIN data \cup W : New(a) # 0}
    IN [a \in D |-> New(a)]

MemoryBlockRead(m, address, n) ==
    IF address + n > m.size
    THEN [res |-> MemoryAccessOutOfBounds, bytes |-> <<>>]
    ELSE [res |-> Ok, bytes |-> [k \in 1..n |-> ByteAt(m.data, address + k - 1)]]

\* MemoryBlock::set_read_only
MemoryBlockSetReadOnly(m) == [m EXCEPT !.read_only = TRUE]

\* write that tests the bounds before the read_only flag
MemoryBlockWriteBoundsFirst(m, address, bytes) ==
    IF address + Len(bytes) > m.size
    THEN [res |-> MemoryAccessOutOfBounds, m |-> m]
    ELSE IF m.read_only
    THEN [res |-> MemoryAccessReadOnly, m |-> m]
    ELSE [res |-> Ok, m |-> [m EXCEPT !.data = CopyFromSlice(@, address, bytes)]]

MemoryBlockWrite(m, address, bytes) ==
    IF m.read_only
    THEN [res |-> MemoryAccessReadOnly, m |-> m]
    ELSE IF address + Len(bytes) > m.size
    THEN [res |-> MemoryAccessOutOfBounds, m |-> m]
    ELSE [res |-> Ok, m |-> [m EXCEPT !.data = CopyFromSlice(@, address, bytes)]]

-----------------------------------------------------------------------------
(* backend/memory.rs: Bus *)

BusMountContains(mount, address) ==
    (mount.base <= address) /\ (address < mount.base + mount.size)

\* slice::sort_by_key is a stable sort: insertion of each element after the
\* elements whose key is not greater
RECURSIVE InsertSorted(_, _)
InsertSorted(sorted, m) ==
    IF sorted = <<>> THEN <<m>>
    ELSE IF sorted[Len(sorted)].base <= m.base THEN Append(sorted, m)
    ELSE Append(InsertSorted(SubSeq(sorted, 1, Len(sorted) - 1), m), sorted[Len(sorted)])

RECURSIVE SortByBase(_)
SortByBase(ms) ==
    IF ms = <<>> THEN <<>>
    ELSE InsertSorted(SortByBase(SubSeq(ms, 1, Len(ms) - 1)), ms[Len(ms)])

BusInsert(b, base, component) ==
    [b EXCEPT !.mounts = SortByBase(Append(@,
        [base |-> base, size |-> b.store[component].size, component |-> component]))]

\* get_component_at that looks at the first address of the range only
GetComponentAtFirstOnly(ms, address, size) ==
    LET hits == {k \in DOMAIN ms : BusMountContains(ms[k], address)}
    IN IF hits # {}
       THEN [res |-> Ok, component |-> ms[Min(hits)].component,
             relative_address |-> address - ms[Min(hits)].base]
       ELSE [res |-> Misc, component |-> 0, relative_address |-> 0]

\* the first mount that contains address and address + size - 1, or no mount (0)
GetComponentAt(ms, address, size) ==
    LET hits == {k \in DOMAIN ms : /\ BusMountContains(ms[k], address)
                                   /\ BusMountContains(ms[k], address + size - 1)}
    IN IF size > 0 /\ hits # {}
       THEN [res |-> Ok, component |-> ms[Min(hits)].component,
             relative_address |-> address - ms[Min(hits)].base]
       ELSE [res |-> Misc, component |-> 0, relative_address |-> 0]

BusRead(b, address, n) ==
    LET at == GetComponentAt(b.mounts, address, n)
    IN IF at.res # Ok THEN [res |-> at.res, bytes |-> <<>>]
       ELSE MemoryBlockRead(b.store[at.component], at.relative_address, n)

BusWrite(b, address, bytes) ==
    LET at == GetComponentAt(b.mounts, address, Len(bytes))
    IN IF at.res # Ok THEN [res |-> at.res, b |-> b]
       ELSE LET w == MemoryBlockWrite(b.store[at.component], at.relative_address, bytes)
            IN [res |-> w.res, b |-> [b EXCEPT !.store[at.component] = w.m]]

\* Addressable::read_u8 / read_u16_be / write_u8
ReadU8(b, address) ==
    LET r == BusRead(b, address, 1)
    IN [res |-> r.res, value |-> IF r.res = Ok THEN r.bytes[1] ELSE 0]

ReadU16Be(b, address) ==
    LET r == BusRead(b, address, 2)
    IN [res |-> r.res, value |-> IF r.res = Ok THEN r.bytes[1] * 256 + r.bytes[2] ELSE 0]

WriteU8(b, address, value) == BusWrite(b, address, <<value>>)

-----------------------------------------------------------------------------
(* backend/mod.rs: the scheduler queue, a std BinaryHeap over SchedulerEvent *)
(* whose Ord is flipped.  The heap is its array; index k of the program is   *)
(* index k + 1 here.                                                         *)

SchedulerEventNew(component) ==
    [clock_cycle |-> INSTANT_START, component |-> component]

\* EventLe without the flip of cmp, which makes the heap a max-heap
EventLeUnflipped(a, b) == a.clock_cycle <= b.clock_cycle

\* impl Ord for SchedulerEvent: a <= b in the heap's order
EventLe(a, b) == b.clock_cycle <= a.clock_cycle

\* BinaryHeap::sift_up(start, pos) with the hole's element e
RECURSIVE SiftUp(_, _, _, _)
SiftUp(data, start, pos, e) ==
    IF pos > start
    THEN LET parent == (pos - 1) \div 2
         IN IF EventLe(e, data[parent + 1])
            THEN [data EXCEPT ![pos + 1] = e]
            ELSE SiftUp([data EXCEPT ![pos + 1] = data[parent + 1]], start, parent, e)
    ELSE [data EXCEPT ![pos + 1] = e]

\* BinaryHeap::sift_down_to_bottom(start): the hole moves to a leaf along the
\* greater children, then the element is sifted up from there
RECURSIVE HoleToBottom(_, _)
HoleToBottom(data, pos) ==
    LET end == Len(data)
        child == 2 * pos + 1
    IN IF end >= 2 /\ child <= end - 2
       THEN LET c == IF EventLe(data[child + 1], data[child + 2]) THEN child + 1 ELSE child
            IN HoleToBottom([data EXCEPT ![pos + 1] = data[c + 1]], c)
       ELSE IF child = end - 1
       THEN [data |-> [data EXCEPT ![pos + 1] = data[child + 1]], pos |-> child]
       ELSE [data |-> data, pos |-> pos]

SiftDownToBottom(data, start) ==
    LET h == HoleToBottom(data, start)
    IN SiftUp(h.data, start, h.pos, data[start + 1])

\* BinaryHeap::push
HeapPush(data, event) ==
    SiftUp(Append(data, event), 0, Len(data), event)

\* BinaryHeap::pop on a heap that is not empty: the popped item and the rest
\* a pop that takes the event pushed last, not the earliest one
HeapPopNewest(data) ==
    [item |-> data[Len(data)], data |-> SubSeq(data, 1, Len(data) - 1)]

HeapPop(data) ==
    LET item == data[Len(data)]
        rest == SubSeq(data, 1, Len(data) - 1)
    IN IF rest = <<>>
       THEN [item |-> item, data |-> rest]
       ELSE [item |-> rest[1],
             data |-> SiftDownToBottom([rest EXCEPT ![1] = item], 0)]

-----------------------------------------------------------------------------
(* frontend/input.rs and backends/chip8/src/input.rs *)

Pressed == "Pressed"
Released == "Released"

InputEvent(key, state) == [key |-> key, state |-> state]

\* InputSender::add: the event is stamped with Instant::START
InputSenderAdd(queue, event) ==
    RingbufferPushBack(queue, INPUT_CAPACITY, <<INSTANT_START, event>>)

NoButton == 0 - 1

\* impl TryFrom<KeyboardEventKey> for InputButton, followed by
\* impl From<InputButton> for u8; NoButton is Err(())
ButtonOfKey(key) ==
    CASE key = "Number1" -> 1  [] key = "Number2" -> 2
      [] key = "Number3" -> 3  [] key = "Number4" -> 12
      [] key = "Q" -> 4        [] key = "W" -> 5
      [] key = "E" -> 6        [] key = "R" -> 13
      [] key = "A" -> 7        [] key = "S" -> 8
      [] key = "D" -> 9        [] key = "F" -> 14
      [] key = "Y" -> 10       [] key = "X" -> 0
      [] key = "C" -> 11       [] key = "V" -> 15
      [] OTHER -> NoButton

\* KeypadState::parse_input_event: the HashMap gets the button's entry
ParseInputEvent(keypad_state, event) ==
    LET button == ButtonOfKey(event.key)
    IN IF button = NoButton THEN keypad_state
       ELSE [k \in DOMAIN keypad_state \cup {button} |->
                IF k = button THEN event.state ELSE keypad_state[k]]

\* KeypadState::get_state_for_button
GetStateForButton(keypad_state, button) ==
    IF button \in DOMAIN keypad_state THEN keypad_state[button] ELSE Released

-----------------------------------------------------------------------------
(* backends/chip8/src/cpu.rs: state and quirks *)

NoKey == 0 - 1

Chip8 == "Chip8"
SuperChip == "SuperChip"

\* impl From<Platform> for CpuQuirks
\* quirks without the shift of V[X] in place on the SUPER-CHIP
CpuQuirksFromShiftingVY(platform) ==
    [quirks_shift_takes_x_instead_of_y |-> FALSE,
     quirks_loadstore_leaves_i_unmodified |-> platform = SuperChip,
     quirks_loadstore_modifies_i_one_less |-> FALSE,
     quirks_jump_uses_x |-> platform = SuperChip,
     quirks_draw_not_waiting_for_vblank |-> platform = SuperChip,
     quirks_logic_leaves_flag_unmodified |-> platform = SuperChip]

CpuQuirksFrom(platform) ==
    [quirks_shift_takes_x_instead_of_y |-> platform = SuperChip,
     quirks_loadstore_leaves_i_unmodified |-> platform = SuperChip,
     quirks_loadstore_modifies_i_one_less |-> FALSE,
     quirks_jump_uses_x |-> platform = SuperChip,
     quirks_draw_not_waiting_for_vblank |-> platform = SuperChip,
     quirks_logic_leaves_flag_unmodified |-> platform = SuperChip]

\* CpuState::new.  frame_buffer is the set of the indices that are true;
\* keypad_state is the HashMap, empty at first.
CpuStateNew ==
    [v |-> [r \in 0..15 |-> 0], i |-> 0, pc |-> 512, sp |-> 0,
     stack |-> [r \in 0..15 |-> 0], paused |-> FALSE,
     waiting_for_key |-> NoKey, waiting_for_vblank |-> FALSE,
     frame_buffer |-> {}, keypad_state |-> <<>>]

\* Cpu::new; the platform is kept beside the quirks made from it
CpuNew(platform) ==
    [kind |-> "Cpu", state |-> CpuStateNew, quirks |-> CpuQuirksFrom(platform),
     platform |-> platform]

\* HandleEvent with a wait that any event of a hex key ends, pressed or released
HandleEventAnyState(state, ie) ==
    LET s1 == [state EXCEPT !.keypad_state = ParseInputEvent(@, ie)]
        button == ButtonOfKey(ie.key)
    IN IF s1.waiting_for_key # NoKey /\ button # NoButton
       THEN [s1 EXCEPT !.v[s1.waiting_for_key] = button, !.waiting_for_key = NoKey]
       ELSE s1

\* HandleEvent with a wait that the release of a hex key does not end
HandleEventKeepWaiting(state, ie) ==
    LET s1 == [state EXCEPT !.keypad_state = ParseInputEvent(@, ie)]
        button == ButtonOfKey(ie.key)
    IN IF s1.waiting_for_key # NoKey /\ ie.state = Released /\ button # NoButton
       THEN [s1 EXCEPT !.v[s1.waiting_for_key] = button]
       ELSE s1

\* the body of the loop of Cpu::handle_input, for one event
HandleEvent(state, ie) ==
    LET s1 == [state EXCEPT !.keypad_state = ParseInputEvent(@, ie)]
        button == ButtonOfKey(ie.key)
    IN IF /\ s1.waiting_for_key # NoKey
          /\ ie.state = Released
          /\ button # NoButton
       THEN [s1 EXCEPT !.v[s1.waiting_for_key] = button,
                       !.waiting_for_key = NoKey]
       ELSE s1

\* handle_input taking the newest event first
RECURSIVE HandleInputNewestFirst(_, _)
HandleInputNewestFirst(state, queue) ==
    IF queue = <<>> THEN state
    ELSE HandleInputNewestFirst(HandleEvent(state, queue[Len(queue)][2]),
                                SubSeq(queue, 1, Len(queue) - 1))

\* Cpu::handle_input: the events of the input channel, oldest first
RECURSIVE HandleInput(_, _)
HandleInput(state, queue) ==
    IF queue = <<>> THEN state
    ELSE HandleInput(HandleEvent(state, queue[1][2]), Tail(queue))

\* Cpu::send_frame: the frame has a white pixel where the frame buffer is true
\* send_frame that stamps the frame with the origin of the clock
SendFrameUnstamped(b, state) ==
    [b EXCEPT !.frame_queue =
        RingbufferPushBack(@, FRAME_CAPACITY, <<INSTANT_START, state.frame_buffer>>)]

SendFrame(b, state) ==
    [b EXCEPT !.frame_queue =
        RingbufferPushBack(@, FRAME_CAPACITY, <<b.clock, state.frame_buffer>>)]

-----------------------------------------------------------------------------
(* backends/chip8/src/cpu.rs: impl From<u16> for Instruction *)

Ins(op, value) ==
    [op |-> op, raw |-> value,
     x |-> (value \div 256) % 16, y |-> (value \div 16) % 16,
     n |-> value % 16, nn |-> value % 256, nnn |-> value % 4096]

InstructionFrom(value) ==
    LET hi == value \div 4096
        lo == value % 16
        nn == value % 256
    IN Ins(CASE hi = 0 -> (IF value = 224 THEN "Cls"
                           ELSE IF value = 238 THEN "Return" ELSE "Sys")
             [] hi = 1 -> "Jump"
             [] hi = 2 -> "Call"
             [] hi = 3 -> "SkipIfVImmediate"
             [] hi = 4 -> "SkipIfNotVImmediate"
             [] hi = 5 -> "SkipIfCmp"
             [] hi = 6 -> "LoadVImmediate"
             [] hi = 7 -> "AddVImmediate"
             [] hi = 8 -> (CASE lo = 0 -> "LoadV" [] lo = 1 -> "Or"
                             [] lo = 2 -> "And"  [] lo = 3 -> "Xor"
                             [] lo = 4 -> "Add"  [] lo = 5 -> "Sub"
                             [] lo = 6 -> "ShiftRight" [] lo = 7 -> "SubN"
                             [] lo = 14 -> "ShiftLeft" [] OTHER -> "Unknown")
             [] hi = 9 -> "SkipIfNotCmp"
             [] hi = 10 -> "LoadIImmediate"
             [] hi = 11 -> "JumpV0"
             [] hi = 12 -> "Random"
             [] hi = 13 -> "Draw"
             [] hi = 14 -> (CASE nn = 158 -> "SkipIfKey"
                              [] nn = 161 -> "SkipIfNotKey"
                              [] OTHER -> "Unknown")
             [] hi = 15 -> (CASE nn = 7 -> "LoadVDT"
                              [] nn = 10 -> "WaitAndLoadKeypress"
                              [] nn = 21 -> "LoadDTV"
                              [] nn = 24 -> "LoadSTV"
                              [] nn = 30 -> "AddIV"
                              [] nn = 41 -> "LoadFontV"
                              [] nn = 51 -> "StoreBCDV"
                              [] nn = 85 -> "StoreAllV"
                              [] nn = 101 -> "LoadAllV"
                              [] OTHER -> "Unknown"),
        value)

-----------------------------------------------------------------------------
(* backends/chip8/src/cpu.rs: Instruction::execute.  The result is Ok, an   *)
(* emulator error, or Panic where the program indexes out of bounds or      *)
(* unwraps an Err; c is the Cpu, b the backend it reads and writes.         *)

Panic == "Panic"

Done(res, c, b) == [res |-> res, c |-> c, b |-> b]

Bit(byte, k) == (byte \div (2 ^ k)) % 2

\* the random byte stream behind rand::random()
RandomStream == <<183, 7, 64>>

RandomByte(b) == RandomStream[b.rng + 1]

\* u8::overflowing_add and u8::overflowing_sub of the registers
OverflowingAdd(a, b) == [result |-> Wrap8(a + b), overflow |-> a + b > 255]

\* overflowing_sub that tells an overflow for equal operands as well
OverflowingSubOrEqual(a, b) == [result |-> Wrap8(256 + a - b), overflow |-> a <= b]

OverflowingSub(a, b) == [result |-> Wrap8(256 + a - b), overflow |-> a < b]

\* Draw with a sprite that wraps around the right and the bottom edge
RECURSIVE DrawRowsWrapping(_, _, _, _, _, _)
DrawRowsWrapping(c, b, start_x, start_y, n, y) ==
    IF y >= n THEN Done(Ok, c, b)
    ELSE LET rd == ReadU8(b, c.state.i + y)
         IN IF rd.res # Ok THEN Done(rd.res, c, b)
            ELSE LET on == {x \in 0..7 : Bit(rd.value, 7 - x) = 1}
                     idx == {((start_y + y) % FRAME_HEIGHT) * FRAME_WIDTH
                                + ((start_x + x) % FRAME_WIDTH) : x \in on}
                     fb == c.state.frame_buffer
                     hit == idx \cap fb # {}
                     c1 == [c EXCEPT !.state.frame_buffer = (fb \ idx) \cup (idx \ fb),
                                     !.state.v[15] = IF hit THEN 1 ELSE @]
                 IN DrawRowsWrapping(c1, b, start_x, start_y, n, y + 1)

\* Draw with a flag that tells of the last row only
RECURSIVE DrawRowsFlagOfLastRow(_, _, _, _, _, _)
DrawRowsFlagOfLastRow(c, b, start_x, start_y, n, y) ==
    IF y >= n THEN Done(Ok, c, b)
    ELSE IF start_y + y >= FRAME_HEIGHT
    THEN DrawRowsFlagOfLastRow(c, b, start_x, start_y, n, y + 1)
    ELSE LET rd == ReadU8(b, c.state.i + y)
         IN IF rd.res # Ok THEN Done(rd.res, c, b)
            ELSE LET on == {x \in 0..7 : /\ start_x + x < FRAME_WIDTH
                                        /\ Bit(rd.value, 7 - x) = 1}
                     idx == {(start_y + y) * FRAME_WIDTH + start_x + x : x \in on}
                     fb == c.state.frame_buffer
                     hit == idx \cap fb # {}
                     c1 == [c EXCEPT !.state.frame_buffer = (fb \ idx) \cup (idx \ fb),
                                     !.state.v[15] = IF hit THEN 1 ELSE 0]
                 IN DrawRowsFlagOfLastRow(c1, b, start_x, start_y, n, y + 1)

\* Draw: rows y .. n - 1 of the sprite
RECURSIVE DrawRows(_, _, _, _, _, _)
DrawRows(c, b, start_x, start_y, n, y) ==
    IF y >= n THEN Done(Ok, c, b)
    ELSE IF start_y + y >= FRAME_HEIGHT
    THEN DrawRows(c, b, start_x, start_y, n, y + 1)
    ELSE LET rd == ReadU8(b, c.state.i + y)
         IN IF rd.res # Ok THEN Done(rd.res, c, b)
            ELSE LET on == {x \in 0..7 : /\ start_x + x < FRAME_WIDTH
                                        /\ Bit(rd.value, 7 - x) = 1}
                     idx == {(start_y + y) * FRAME_WIDTH + start_x + x : x \in on}
                     fb == c.state.frame_buffer
                     hit == idx \cap fb # {}
                     c1 == [c EXCEPT !.state.frame_buffer = (fb \ idx) \cup (idx \ fb),
                                     !.state.v[15] = IF hit THEN 1 ELSE @]
                 IN DrawRows(c1, b, start_x, start_y, n, y + 1)

\* StoreAllV: registers register .. x are written to the bus at i + register
RECURSIVE StoreRegisters(_, _, _, _)
StoreRegisters(c, b, x, register) ==
    IF register > x THEN Done(Ok, c, b)
    ELSE LET w == WriteU8(b, c.state.i + register, c.state.v[register])
         IN IF w.res # Ok THEN Done(w.res, c, w.b)
            ELSE StoreRegisters(c, w.b, x, register + 1)

\* LoadAllV: registers register .. x are read from the bus at i + register
RECURSIVE LoadRegisters(_, _, _, _)
LoadRegisters(c, b, x, register) ==
    IF register > x THEN Done(Ok, c, b)
    ELSE LET rd == ReadU8(b, c.state.i + register)
         IN IF rd.res # Ok THEN Done(rd.res, c, b)
            ELSE LoadRegisters([c EXCEPT !.state.v[register] = rd.value], b, x, register + 1)

\* an update of I that takes no notice of the platform: I always advances
LoadStoreIAdvancing(c, x) == [c EXCEPT !.state.i = @ + x + 1]

\* the update of I that closes StoreAllV and LoadAllV
LoadStoreI(c, x) ==
    IF c.quirks.quirks_loadstore_leaves_i_unmodified THEN c
    ELSE [c EXCEPT !.state.i =
            @ + x + (IF c.quirks.quirks_loadstore_modifies_i_one_less THEN 0 ELSE 1)]

Skip(c, cond) == IF cond THEN [c EXCEPT !.state.pc = @ + 2] ELSE c

FlagOff(c) ==
    IF c.quirks.quirks_logic_leaves_flag_unmodified THEN c
    ELSE [c EXCEPT !.state.v[15] = 0]

Execute(ins, c, b) ==
    LET x == ins.x
        y == ins.y
        v == c.state.v
    IN CASE ins.op \in {"Sys", "Jump"} ->
            Done(Ok, [c EXCEPT !.state.pc = ins.nnn], b)
       [] ins.op = "Cls" ->
            LET c1 == [c EXCEPT !.state.frame_buffer = {}]
            IN Done(Ok, c1, SendFrame(b, c1.state))
       [] ins.op = "Return" ->
            LET sp == IF c.state.sp = 0 THEN 0 ELSE c.state.sp - 1
            IN Done(Ok, [c EXCEPT !.state.sp = sp, !.state.pc = c.state.stack[sp]], b)
       [] ins.op = "Call" ->
            IF c.state.sp > 15 THEN Done(Panic, c, b)
            ELSE Done(Ok, [c EXCEPT !.state.stack[c.state.sp] = c.state.pc,
                                    !.state.sp = IF @ = 255 THEN 255 ELSE @ + 1,
                                    !.state.pc = ins.nnn], b)
       [] ins.op = "SkipIfVImmediate" -> Done(Ok, Skip(c, v[x] = ins.nn), b)
       [] ins.op = "SkipIfNotVImmediate" -> Done(Ok, Skip(c, v[x] # ins.nn), b)
       [] ins.op = "SkipIfCmp" -> Done(Ok, Skip(c, v[x] = v[y]), b)
       [] ins.op = "SkipIfNotCmp" -> Done(Ok, Skip(c, v[x] # v[y]), b)
       [] ins.op = "LoadVImmediate" -> Done(Ok, [c EXCEPT !.state.v[x] = ins.nn], b)
       [] ins.op = "AddVImmediate" ->
            Done(Ok, [c EXCEPT !.state.v[x] = Wrap8(@ + ins.nn)], b)
       [] ins.op = "LoadV" -> Done(Ok, [c EXCEPT !.state.v[x] = v[y]], b)
       [] ins.op = "Or" ->
            Done(Ok, FlagOff([c EXCEPT !.state.v[x] = BitOr(v[x], v[y])]), b)
       [] ins.op = "And" ->
            Done(Ok, FlagOff([c EXCEPT !.state.v[x] = BitAnd(v[x], v[y])]), b)
       [] ins.op = "Xor" ->
            Done(Ok, FlagOff([c EXCEPT !.state.v[x] = BitXor(v[x], v[y])]), b)
       [] ins.op = "Add" ->
            LET r == OverflowingAdd(v[x], v[y])
                c1 == [c EXCEPT !.state.v[x] = r.result]
            IN Done(Ok, [c1 EXCEPT !.state.v[15] = IF r.overflow THEN 1 ELSE 0], b)
       [] ins.op = "Sub" ->
            LET r == OverflowingSub(v[x], v[y])
                c1 == [c EXCEPT !.state.v[x] = r.result]
            IN Done(Ok, [c1 EXCEPT !.state.v[15] = IF r.overflow THEN 0 ELSE 1], b)
       [] ins.op = "SubN" ->
            LET r == OverflowingSub(v[y], v[x])
                c1 == [c EXCEPT !.state.v[x] = r.result]
            IN Done(Ok, [c1 EXCEPT !.state.v[15] = IF r.overflow THEN 0 ELSE 1], b)
       [] ins.op = "ShiftRight" ->
            LET c1 == IF c.quirks.quirks_shift_takes_x_instead_of_y THEN c
                      ELSE [c EXCEPT !.state.v[x] = v[y]]
                flag == c1.state.v[x] % 2
                c2 == [c1 EXCEPT !.state.v[x] = @ \div 2]
            IN Done(Ok, [c2 EXCEPT !.state.v[15] = flag], b)
       [] ins.op = "ShiftLeft" ->
            LET c1 == IF c.quirks.quirks_shift_takes_x_instead_of_y THEN c
                      ELSE [c EXCEPT !.state.v[x] = v[y]]
                flag == BitAnd(c1.state.v[x], 128)
                c2 == [c1 EXCEPT !.state.v[x] = Wrap8(@ * 2)]
            IN Done(Ok, [c2 EXCEPT !.state.v[15] = flag \div 128], b)
       [] ins.op = "LoadIImmediate" -> Done(Ok, [c EXCEPT !.state.i = ins.nnn], b)
       [] ins.op = "JumpV0" ->
            IF c.quirks.quirks_jump_uses_x
            THEN LET register == BitAnd(ins.nnn, 3840)
                 IN IF register > 15 THEN Done(Panic, c, b)
                    ELSE Done(Ok, [c EXCEPT !.state.pc = Wrap16(v[register] + ins.nnn)], b)
            ELSE Done(Ok, [c EXCEPT !.state.pc = Wrap16(v[0] + ins.nnn)], b)
       [] ins.op = "Random" ->
            Done(Ok, [c EXCEPT !.state.v[x] = BitAnd(RandomByte(b), ins.nn)],
                 [b EXCEPT !.rng = (@ + 1) % Len(RandomStream)])
       [] ins.op = "Draw" ->
            LET c1 == [c EXCEPT !.state.v[15] = 0]
                d == DrawRows(c1, b, v[x] % FRAME_WIDTH, v[y] % FRAME_HEIGHT, ins.n, 0)
            IN IF d.res # Ok THEN d
               ELSE Done(Ok,
                         IF c.quirks.quirks_draw_not_waiting_for_vblank THEN d.c
                         ELSE [d.c EXCEPT !.state.waiting_for_vblank = TRUE],
                         SendFrame(d.b, d.c.state))
       [] ins.op = "SkipIfKey" ->
            IF v[x] > 15 THEN Done(Panic, c, b)
            ELSE Done(Ok, Skip(c, GetStateForButton(c.state.keypad_state, v[x]) = Pressed), b)
       [] ins.op = "SkipIfNotKey" ->
            IF v[x] > 15 THEN Done(Panic, c, b)
            ELSE Done(Ok, Skip(c, GetStateForButton(c.state.keypad_state, v[x]) = Released), b)
       [] ins.op = "LoadVDT" ->
            LET rd == ReadU8(b, DT_TIMER)
            IN IF rd.res # Ok THEN Done(rd.res, c, b)
               ELSE Done(Ok, [c EXCEPT !.state.v[x] = rd.value], b)
       [] ins.op = "WaitAndLoadKeypress" ->
            Done(Ok, [c EXCEPT !.state.waiting_for_key = x], b)
       [] ins.op = "LoadDTV" ->
            LET w == WriteU8(b, DT_TIMER, v[x]) IN Done(w.res, c, w.b)
       [] ins.op = "LoadSTV" ->
            LET w == WriteU8(b, ST_TIMER, v[x]) IN Done(w.res, c, w.b)
       [] ins.op = "AddIV" -> Done(Ok, [c EXCEPT !.state.i = Wrap16(@ + v[x])], b)
       [] ins.op = "LoadFontV" -> Done(Ok, [c EXCEPT !.state.i = FONT_BASE + x * 5], b)
       [] ins.op = "StoreBCDV" ->
            LET w1 == WriteU8(b, c.state.i, (v[x] \div 100) % 10)
                w2 == WriteU8(w1.b, c.state.i + 1, (v[x] \div 10) % 10)
                w3 == WriteU8(w2.b, c.state.i + 2, v[x] % 10)
            IN IF w1.res # Ok THEN Done(w1.res, c, w1.b)
               ELSE IF w2.res # Ok THEN Done(w2.res, c, w2.b)
               ELSE Done(w3.res, c, w3.b)
       [] ins.op = "StoreAllV" ->
            LET st == StoreRegisters(c, b, x, 0)
            IN IF st.res # Ok THEN st ELSE Done(Ok, LoadStoreI(st.c, x), st.b)
       [] ins.op = "LoadAllV" ->
            LET ld == LoadRegisters(c, b, x, 0)
            IN IF ld.res # Ok THEN ld ELSE Done(Ok, LoadStoreI(ld.c, x), ld.b)
       [] OTHER -> Done(UnknownOpcode, c, b)

-----------------------------------------------------------------------------
(* The Steppable components.  A step returns its result, the Duration it    *)
(* asks for (dur), the backend it leaves and what the CPU did (detail).     *)

Stepped(res, dur, b, detail) == [res |-> res, dur |-> dur, b |-> b, detail |-> detail]

NoDetail == <<>>

\* TimerStep with timers that are decremented at zero too, and wrap
TimerStepWrapping(b, id) ==
    LET dt == ReadU8(b, DT_TIMER)
        st == ReadU8(b, ST_TIMER)
        w1 == WriteU8(b, DT_TIMER, Wrap8(dt.value + 255))
        w2 == WriteU8(w1.b, ST_TIMER, Wrap8(st.value + 255))
    IN IF dt.res # Ok THEN Stepped(dt.res, 0, b, NoDetail)
       ELSE IF st.res # Ok THEN Stepped(st.res, 0, b, NoDetail)
       ELSE IF w1.res # Ok THEN Stepped(w1.res, 0, w1.b, NoDetail)
       ELSE IF w2.res # Ok THEN Stepped(w2.res, 0, w2.b, NoDetail)
       ELSE Stepped(Ok, TIMER_CLOCK_SPEED_NS, w2.b, NoDetail)

\* TimerStep that counts the delay timer down and forgets the sound timer
TimerStepDelayOnly(b, id) ==
    LET dt == ReadU8(b, DT_TIMER)
        w1 == IF dt.value > 0 THEN WriteU8(b, DT_TIMER, dt.value - 1)
              ELSE [res |-> Ok, b |-> b]
    IN IF dt.res # Ok THEN Stepped(dt.res, 0, b, NoDetail)
       ELSE IF w1.res # Ok THEN Stepped(w1.res, 0, w1.b, NoDetail)
       ELSE Stepped(Ok, TIMER_CLOCK_SPEED_NS, w1.b, NoDetail)

\* backends/chip8/src/timer.rs: Timer::step
TimerStep(b, id) ==
    LET dt == ReadU8(b, DT_TIMER)
        st == ReadU8(b, ST_TIMER)
        w1 == IF dt.value > 0 THEN WriteU8(b, DT_TIMER, dt.value - 1)
              ELSE [res |-> Ok, b |-> b]
        w2 == IF st.value > 0 THEN WriteU8(w1.b, ST_TIMER, st.value - 1)
              ELSE [res |-> Ok, b |-> w1.b]
    IN IF dt.res # Ok THEN Stepped(dt.res, 0, b, NoDetail)
       ELSE IF st.res # Ok THEN Stepped(st.res, 0, b, NoDetail)
       ELSE IF w1.res # Ok THEN Stepped(w1.res, 0, w1.b, NoDetail)
       ELSE IF w2.res # Ok THEN Stepped(w2.res, 0, w2.b, NoDetail)
       ELSE Stepped(Ok, TIMER_CLOCK_SPEED_NS, w2.b, NoDetail)

\* Audio::step without the test of ST: the sine is sent at every step
AudioStepUngated(b, id) ==
    LET st == ReadU8(b, ST_TIMER)
        sample_clock == (b.store[id].sample_clock + 1) % AUDIO_SAMPLING_RATE
    IN IF st.res # Ok THEN Stepped(st.res, 0, b, NoDetail)
       ELSE Stepped(Ok, AUDIO_CLOCK_SPEED_NS,
                    [b EXCEPT !.store[id].sample_clock = sample_clock,
                              !.audio_queue = RingbufferPushBack(@, AUDIO_CAPACITY,
                                                                 <<b.clock, sample_clock>>)],
                    NoDetail)

\* backends/chip8/src/audio.rs: Audio::step.  A sample is the sample_clock k
\* whose sine it is: k stands for the f32 value of
\* (k * 440.0 * 2.0 * PI / 48000.0).sin(), which is 0.0 for k = 0 and for no
\* other k in 1..47999 (the f32 argument is then no multiple of pi), and 0
\* stands for the 0.0 of the silent branch as well.
AudioStep(b, id) ==
    LET st == ReadU8(b, ST_TIMER)
        sample_clock == (b.store[id].sample_clock + 1) % AUDIO_SAMPLING_RATE
        sample == IF st.value > 0 THEN sample_clock ELSE 0
    IN IF st.res # Ok THEN Stepped(st.res, 0, b, NoDetail)
       ELSE Stepped(Ok, AUDIO_CLOCK_SPEED_NS,
                    [b EXCEPT !.store[id].sample_clock = sample_clock,
                              !.audio_queue = RingbufferPushBack(@, AUDIO_CAPACITY,
                                                                 <<b.clock, sample>>)],
                    NoDetail)

\* backends/simple/src/lib.rs: SimpleCpu::step.  The text and the frame are
\* functions of the counter, which stands for them.
SimpleCpuStep(b, id) ==
    LET counter == b.store[id].counter + 1
    IN Stepped(Ok, SIMPLE_PERIOD_NS,
               [b EXCEPT !.store[id].counter = counter,
                         !.text_queue = RingbufferPushBack(@, TEXT_CAPACITY,
                                                           <<b.clock, counter>>),
                         !.frame_queue = RingbufferPushBack(@, FRAME_CAPACITY,
                                                            <<b.clock, counter>>)],
               NoDetail)

\* VBlankDuration that waits for the boundary after the next one
VBlankDurationSkipping(c, b) ==
    IF ~c.quirks.quirks_draw_not_waiting_for_vblank /\ c.state.waiting_for_vblank
    THEN [dur |-> (b.clock \div VBLANK_CLOCK_SPEED_NS + 2) * VBLANK_CLOCK_SPEED_NS - b.clock,
          c |-> [c EXCEPT !.state.waiting_for_vblank = FALSE]]
    ELSE [dur |-> CLOCK_SPEED_NS, c |-> c]

\* the remainder of the step after fetch and execute: the VBlank wait
\* the wait for the VBlank with a flag that stays set
VBlankDurationKeepingFlag(c, b) ==
    IF ~c.quirks.quirks_draw_not_waiting_for_vblank /\ c.state.waiting_for_vblank
    THEN LET last_vblank_idx == b.clock \div VBLANK_CLOCK_SPEED_NS
             next_vblank == (last_vblank_idx + 1) * VBLANK_CLOCK_SPEED_NS
         IN [dur |-> next_vblank - b.clock, c |-> c]
    ELSE [dur |-> CLOCK_SPEED_NS, c |-> c]

VBlankDuration(c, b) ==
    IF ~c.quirks.quirks_draw_not_waiting_for_vblank /\ c.state.waiting_for_vblank
    THEN LET last_vblank_idx == b.clock \div VBLANK_CLOCK_SPEED_NS
             next_vblank == (last_vblank_idx + 1) * VBLANK_CLOCK_SPEED_NS
         IN [dur |-> next_vblank - b.clock,
             c |-> [c EXCEPT !.state.waiting_for_vblank = FALSE]]
    ELSE [dur |-> CLOCK_SPEED_NS, c |-> c]

\* Cpu::step advancing pc before the word at pc is read
CpuFetchExecuteAdvancingFirst(c1, b1) ==
    IF c1.state.paused \/ c1.state.waiting_for_key # NoKey
    THEN [ex |-> Done(Ok, c1, b1), fetched |-> FALSE, opcode |-> 0]
    ELSE LET opcode == ReadU16Be(b1, c1.state.pc)
             c2 == [c1 EXCEPT !.state.pc = @ + 2]
         IN IF opcode.res # Ok
            THEN [ex |-> Done(opcode.res, c2, b1), fetched |-> FALSE, opcode |-> 0]
            ELSE [ex |-> Execute(InstructionFrom(opcode.value), c2, b1),
                  fetched |-> TRUE, opcode |-> opcode.value]

\* Cpu::step leaving pc at the fetched word when the instruction executes
CpuFetchExecuteNotAdvancing(c1, b1) ==
    IF c1.state.paused \/ c1.state.waiting_for_key # NoKey
    THEN [ex |-> Done(Ok, c1, b1), fetched |-> FALSE, opcode |-> 0]
    ELSE LET opcode == ReadU16Be(b1, c1.state.pc)
         IN IF opcode.res # Ok
            THEN [ex |-> Done(opcode.res, c1, b1), fetched |-> FALSE, opcode |-> 0]
            ELSE [ex |-> Execute(InstructionFrom(opcode.value), c1, b1),
                  fetched |-> TRUE, opcode |-> opcode.value]

\* Cpu::step up to the end of execute: the input is handled, then the
\* instruction at pc is fetched, decoded and executed
CpuFetchExecute(c1, b1) ==
    IF c1.state.paused \/ c1.state.waiting_for_key # NoKey
    THEN [ex |-> Done(Ok, c1, b1), fetched |-> FALSE, opcode |-> 0]
    ELSE LET opcode == ReadU16Be(b1, c1.state.pc)
         IN IF opcode.res # Ok
            THEN [ex |-> Done(opcode.res, c1, b1), fetched |-> FALSE, opcode |-> 0]
            ELSE [ex |-> Execute(InstructionFrom(opcode.value),
                                 [c1 EXCEPT !.state.pc = @ + 2], b1),
                  fetched |-> TRUE, opcode |-> opcode.value]

\* the end of Cpu::step: the duration, and the record of the step
CpuStepEnd(b, id, handled, fe) ==
    LET vb == VBlankDuration(fe.ex.c, fe.ex.b)
        c3 == IF fe.ex.res = Ok THEN vb.c ELSE fe.ex.c
    IN Stepped(fe.ex.res, IF fe.ex.res = Ok THEN vb.dur ELSE 0,
               [fe.ex.b EXCEPT !.store[id] = c3],
               [before |-> b.store[id].state, handled |-> handled, after |-> c3.state,
                drained |-> b.input_queue, fetched |-> fe.fetched, opcode |-> fe.opcode])

CpuStepHandled(b, id, c1) ==
    CpuStepEnd(b, id, c1.state, CpuFetchExecute(c1, [b EXCEPT !.input_queue = <<>>]))

\* backends/chip8/src/cpu.rs: Cpu::step
CpuStep(b, id) ==
    CpuStepHandled(b, id, [b.store[id] EXCEPT !.state = HandleInput(@, b.input_queue)])

IsSteppable(obj) == obj.kind \in {"Timer", "Audio", "SimpleCpu", "Cpu"}

IsAddressable(obj) == obj.kind = "MemoryBlock"

\* next_event.component.borrow_mut().as_steppable().unwrap().step(self)
ComponentStep(b, id) ==
    CASE b.store[id].kind = "Timer" -> TimerStep(b, id)
      [] b.store[id].kind = "Audio" -> AudioStep(b, id)
      [] b.store[id].kind = "SimpleCpu" -> SimpleCpuStep(b, id)
      [] b.store[id].kind = "Cpu" -> CpuStep(b, id)

-----------------------------------------------------------------------------
(* backend/mod.rs: Backend *)

\* Backend::default, with the channels the frontend holds the other ends of
BackendDefault ==
    [clock |-> INSTANT_START, components |-> <<>>, scheduler_queue |-> <<>>,
     mounts |-> <<>>, store |-> <<>>, next_id |-> 1,
     input_queue |-> <<>>, frame_queue |-> <<>>, audio_queue |-> <<>>,
     text_queue |-> <<>>, rng |-> 0]

\* Component::new: the object gets the next ComponentId
ComponentNew(b, obj) ==
    [b EXCEPT !.store = [k \in DOMAIN b.store \cup {b.next_id} |->
                            IF k = b.next_id THEN obj ELSE b.store[k]],
              !.next_id = @ + 1]

QueueEvent(b, event) ==
    [b EXCEPT !.scheduler_queue = HeapPush(@, event)]

TryQueueComponent(b, component) ==
    IF IsSteppable(b.store[component])
    THEN QueueEvent(b, SchedulerEventNew(component))
    ELSE b

AddComponent(b, name, component) ==
    LET b1 == TryQueueComponent(b, component)
    IN [b1 EXCEPT !.components = [k \in DOMAIN b1.components \cup {name} |->
                                    IF k = name THEN component ELSE b1.components[k]]]

AddAddressableComponent(b, name, address, component) ==
    AddComponent(BusInsert(b, address, component), name, component)

\* the pending events as a bag: how many events each component has queued
Pending(queue) ==
    [id \in {queue[k].component : k \in DOMAIN queue} |->
        Cardinality({k \in DOMAIN queue : queue[k].component = id})]

\* the end of Backend::step: the event is pushed back.  entry is the record
\* of the step: the event popped, the clock the component saw, what it
\* returned and the event pushed back.
StepEntry(b, next_event, st, pushed) ==
    [component |-> next_event.component,
     at |-> next_event.clock_cycle,
     earliest |-> Min({b.scheduler_queue[k].clock_cycle :
                          k \in DOMAIN b.scheduler_queue}),
     clock_before |-> b.clock,
     seen |-> st.b.clock,
     res |-> st.res,
     dur |-> st.dur,
     next |-> pushed.clock_cycle,
     pending |-> Pending(b.scheduler_queue),
     detail |-> st.detail]

\* the event as it is pushed back: match result { Ok(diff) => clock + diff }
Requeued(next_event, st) ==
    IF st.res = Ok
    THEN [next_event EXCEPT !.clock_cycle = st.b.clock + st.dur]
    ELSE next_event

\* BackendStepEnd with a step that returns the error before the push
BackendStepEndDropOnError(b, next_event, st) ==
    [res |-> st.res,
     b |-> IF st.res = Panic THEN b
           ELSE IF st.res = Ok THEN QueueEvent(st.b, Requeued(next_event, st))
           ELSE st.b,
     entry |-> StepEntry(b, next_event, st, Requeued(next_event, st))]

BackendStepEnd(b, next_event, st) ==
    [res |-> st.res,
     b |-> IF st.res = Panic THEN b
           ELSE QueueEvent(st.b, Requeued(next_event, st)),
     entry |-> StepEntry(b, next_event, st, Requeued(next_event, st))]

BackendStepPopped(b, pop) ==
    BackendStepEnd(b, pop.item,
                   ComponentStep([b EXCEPT !.clock = pop.item.clock_cycle,
                                           !.scheduler_queue = pop.data],
                                 pop.item.component))

\* Backend::step on a queue that is not empty
BackendStep(b) == BackendStepPopped(b, HeapPop(b.scheduler_queue))

\* The loop of Backend::run_until, while self.clock < clock { self.step()?; }.
\* r is the call so far: the backend, the record of the steps, and done once
\* the condition failed or a step returned an error.

\* RunUntilStepped with an if in the place of the while
RunUntilSteppedOnce(r, s) ==
    [res |-> s.res, b |-> s.b, log |-> Append(r.log, s.entry), done |-> TRUE]

\* self.step()?: an error ends the loop
RunUntilStepped(r, s) ==
    [res |-> s.res, b |-> s.b, log |-> Append(r.log, s.entry), done |-> s.res # Ok]

\* one pass of the loop
RunUntilIteration(r, target) ==
    IF r.b.clock < target
    THEN RunUntilStepped(r, BackendStep(r.b))
    ELSE [r EXCEPT !.done = TRUE]

\* at most 2^k passes of the loop
RECURSIVE RunUntilBlock(_, _, _)
RunUntilBlock(r, target, k) ==
    IF r.done THEN r
    ELSE IF k = 0 THEN RunUntilIteration(r, target)
    ELSE RunUntilBlock(RunUntilBlock(r, target, k - 1), target, k - 1)

\* the loop to its end, in blocks of 1, 2, 4, .. passes, so that the
\* evaluation nests as deep as the logarithm of the number of steps
RECURSIVE RunUntilLoop(_, _, _)
RunUntilLoop(r, target, k) ==
    IF r.done THEN [res |-> r.res, b |-> r.b, log |-> r.log]
    ELSE RunUntilLoop(RunUntilBlock(r, target, k), target, k + 1)

\* Backend::run_until.  A step leaves the queue as long as it found it, so
\* that the unwrap of step panics in the first step or in none.
BackendRunUntil(b, target) ==
    IF b.clock < target /\ b.scheduler_queue = <<>>
    THEN [res |-> Panic, b |-> b, log |-> <<>>]
    ELSE RunUntilLoop([res |-> Ok, b |-> b, log |-> <<>>, done |-> FALSE], target, 0)

\* BackendRunFor with the duration taken for the target
BackendRunForAbsolute(b, duration) == BackendRunUntil(b, duration)

BackendRunFor(b, duration) == BackendRunUntil(b, b.clock + duration)

-----------------------------------------------------------------------------
(* The state machine.  Cur is the backend of the current state; an action   *)
(* installs the backend its call leaves and records the call in last.       *)

Cur ==
    [clock |-> clock, components |-> components, scheduler_queue |-> scheduler_queue,
     mounts |-> mounts, store |-> store, next_id |-> next_id,
     input_queue |-> input_queue, frame_queue |-> frame_queue,
     audio_queue |-> audio_queue, text_queue |-> text_queue, rng |-> rng]

Install(b) ==
    /\ clock' = b.clock
    /\ components' = b.components
    /\ scheduler_queue' = b.scheduler_queue
    /\ mounts' = b.mounts
    /\ store' = b.store
    /\ next_id' = b.next_id
    /\ input_queue' = b.input_queue
    /\ frame_queue' = b.frame_queue
    /\ audio_queue' = b.audio_queue
    /\ text_queue' = b.text_queue
    /\ rng' = b.rng
    /\ UNCHANGED <<ringbuffer, callers>>

\* the state whose backend is b
Start(b) ==
    /\ clock = b.clock
    /\ components = b.components
    /\ scheduler_queue = b.scheduler_queue
    /\ mounts = b.mounts
    /\ store = b.store
    /\ next_id = b.next_id
    /\ input_queue = b.input_queue
    /\ frame_queue = b.frame_queue
    /\ audio_queue = b.audio_queue
    /\ text_queue = b.text_queue
    /\ rng = b.rng

Call(op, arg, res, log) ==
    [op |-> op, arg |-> arg, start |-> clock, res |-> res, log |-> log,
     pending |-> Pending(scheduler_queue)]

NoCall ==
    [op |-> "new", arg |-> 0, start |-> INSTANT_START, res |-> Ok, log |-> <<>>,
     pending |-> <<>>]

\* the state after a call that stepped: r is what the call returned
Logged(s) == [res |-> s.res, b |-> s.b, log |-> <<s.entry>>]

Returned(op, arg, r) ==
    /\ Install(r.b)
    /\ last' = Call(op, arg, r.res, r.log)

\* a panic ends the program
Alive == last.res # Panic

\* the callers' arguments
Names == {"a", "b"}
NewKinds == {"Timer", "SimpleCpu", "MemoryBlock"}
Bases == {0, RAM_BASE}
Targets == {TIMER_CLOCK_SPEED_NS, SIMPLE_PERIOD_NS}
Durations == {0, 1, SIMPLE_PERIOD_NS}

NewObject(kind) ==
    CASE kind = "Timer" -> [kind |-> "Timer"]
      [] kind = "SimpleCpu" -> [kind |-> "SimpleCpu", counter |-> 0]
      [] kind = "MemoryBlock" -> MemoryBlockNew(INTERPRETER_SIZE, <<>>)

\* backend.add_component(name, Component::new(..))
DoAddComponent(name, kind) ==
    /\ Alive /\ adds < MaxAdds
    /\ kind = "SimpleCpu" => \A id \in DOMAIN store : store[id].kind # "SimpleCpu"
    /\ Install(AddComponent(ComponentNew(Cur, NewObject(kind)), name, next_id))
    /\ adds' = adds + 1
    /\ last' = Call("add_component", next_id, Ok, <<>>)

\* backend.add_component(name, component) with a clone of a component made before
DoAddComponentAgain(name, id) ==
    /\ Alive /\ adds < MaxAdds
    /\ Install(AddComponent(Cur, name, id))
    /\ adds' = adds + 1
    /\ last' = Call("add_component", id, Ok, <<>>)

\* backend.add_addressable_component(name, base, Component::new(memory))
DoAddAddressableComponent(name, base) ==
    /\ Alive /\ adds < MaxAdds
    /\ Install(AddAddressableComponent(
                  ComponentNew(Cur, NewObject("MemoryBlock")), name, base, next_id))
    /\ adds' = adds + 1
    /\ last' = Call("add_addressable_component", next_id, Ok, <<>>)

\* backend.step(); with an empty queue the call panics in unwrap
DoStep(limit) ==
    /\ Alive /\ clock <= limit
    /\ IF scheduler_queue = <<>>
       THEN Returned("step", 0, [res |-> Panic, b |-> Cur, log |-> <<>>])
       ELSE Returned("step", 0, Logged(BackendStep(Cur)))
    /\ UNCHANGED adds

\* backend.run_until(target)
DoRunUntil(target, limit) ==
    /\ Alive /\ clock <= limit
    /\ Returned("run_until", target, BackendRunUntil(Cur, target))
    /\ UNCHANGED adds

\* backend.run_for(duration)
DoRunFor(duration, limit) ==
    /\ Alive /\ clock <= limit
    /\ Returned("run_for", duration, BackendRunFor(Cur, duration))
    /\ UNCHANGED adds

Init ==
    /\ Start(BackendDefault)
    /\ ringbuffer = RingbufferNew(0) /\ callers = <<>>
    /\ adds = 0
    /\ last = NoCall

Next ==
    \/ \E name \in Names, kind \in NewKinds : DoAddComponent(name, kind)
    \/ \E name \in Names, id \in DOMAIN store : DoAddComponentAgain(name, id)
    \/ \E name \in Names, base \in Bases : DoAddAddressableComponent(name, base)
    \/ DoStep(Millis(MaxClockMillis))
    \/ \E target \in Targets : DoRunUntil(target, Millis(MaxClockMillis))
    \/ \E duration \in Durations : DoRunFor(duration, Millis(MaxClockMillis))

Spec == Init /\ [][Next]_vars

-----------------------------------------------------------------------------
(* backends/chip8/src/lib.rs: create_chip8_backend *)

FONT_SET ==
    <<240, 144, 144, 144, 240,   32, 96, 32, 32, 112,
      240, 16, 240, 128, 240,    240, 16, 240, 16, 240,
      144, 144, 240, 16, 16,     240, 128, 240, 16, 240,
      240, 128, 240, 144, 240,   240, 16, 32, 64, 64,
      240, 144, 240, 144, 240,   240, 144, 240, 16, 240,
      240, 144, 240, 144, 144,   224, 144, 224, 144, 224,
      240, 128, 128, 128, 240,   224, 144, 144, 144, 224,
      240, 128, 240, 128, 240,   240, 128, 240, 128, 128>>

AudioNew == [kind |-> "Audio", sample_clock |-> 0]

TimerNew == [kind |-> "Timer"]

InterpreterMemory ==
    MemoryBlockWrite(MemoryBlockResize(MemoryBlockFrom(<<>>), INTERPRETER_SIZE),
                     FONT_BASE, FONT_SET).m

CreateChip8Backend(rom_data, platform) ==
    LET b1 == AddAddressableComponent(ComponentNew(BackendDefault, InterpreterMemory),
                                      "mem_interpreter", 0, 1)
        ram == MemoryBlockResize(MemoryBlockFrom(rom_data), RAM_SIZE)
        b2 == AddAddressableComponent(ComponentNew(b1, ram), "mem_ram", RAM_BASE, 2)
        b3 == AddComponent(ComponentNew(b2, TimerNew), "timer", 3)
        b4 == AddComponent(ComponentNew(b3, CpuNew(platform)), "cpu", 4)
    IN AddComponent(ComponentNew(b4, AudioNew), "audio", 5)

\* the ids create_chip8_backend gives its components
TimerId == 3
CpuId == 4
AudioId == 5

\* a ROM from its 16-bit words
RECURSIVE RomOf(_)
RomOf(words) ==
    IF words = <<>> THEN <<>>
    ELSE <<words[1] \div 256, words[1] % 256>> \o RomOf(Tail(words))

\* The ROMs of SpecChip8 (hexadecimal in the comments)
\*   6005 F015 D001 F107 1208: set DT, draw, read DT after the VBlank wait
RomDrawTimer == RomOf(<<24581, 61461, 53249, 61703, 4616>>)
\*   8008 6003 F018 1206: an unknown opcode, then the sound timer is set
RomUnknownSound == RomOf(<<32776, 24579, 61464, 4614>>)
\*   A050 D005 C1FF F20A 1FFF: draw the glyph 0, a random byte, wait for a
\*   key that never comes
RomGlyph == RomOf(<<41040, 53253, 49663, 61962, 8191>>)
\*   1FFF: a jump to the last address, where no opcode can be fetched
RomFetchFault == RomOf(<<8191>>)

ChipRoms == {RomDrawTimer, RomUnknownSound, RomGlyph, RomFetchFault, <<>>}
Platforms == {Chip8, SuperChip}
ChipDurations == {0, Millis(1)}

InitChip8 ==
    /\ \E rom_data \in ChipRoms, platform \in Platforms :
          Start(CreateChip8Backend(rom_data, platform))
    /\ ringbuffer = RingbufferNew(0) /\ callers = <<>>
    /\ adds = 0
    /\ last = NoCall

NextChip8 ==
    \/ DoStep(Millis(MaxChipMillis))
    \/ \E duration \in ChipDurations : DoRunFor(duration, Millis(MaxChipMillis))

SpecChip8 == InitChip8 /\ [][NextChip8]_vars

-----------------------------------------------------------------------------
(* The CHIP-8 backend driven like the frontend drives it: key events are    *)
(* added to the input channel, then run_for is called.                      *)

\*   F30A F40A 6A01 1200: wait for a key into V3, wait for a key into V4,
\*   set VA, start over
RomWaitKey == RomOf(<<62218, 62474, 27137, 4608>>)

CpuRoms == {RomWaitKey}
Keys == {"X", "Number1", "B"}
ButtonStates == {Pressed, Released}
\* the time the frontend lets pass between two calls of run_for
FrameTime == Millis(1)

\* InputSender::add, called by the frontend
DoInputAdd(key, state) ==
    /\ Alive /\ adds < MaxInputs
    /\ clock < Millis(MaxCpuMillis)
    /\ input_queue' = InputSenderAdd(input_queue, InputEvent(key, state))
    /\ adds' = adds + 1
    /\ UNCHANGED <<clock, components, scheduler_queue, mounts, store, next_id,
                   frame_queue, audio_queue, text_queue, rng, ringbuffer, callers,
                   last>>

InitCpu ==
    /\ \E rom_data \in CpuRoms : Start(CreateChip8Backend(rom_data, Chip8))
    /\ ringbuffer = RingbufferNew(0) /\ callers = <<>>
    /\ adds = 0
    /\ last = NoCall

NextCpu ==
    \/ \E key \in Keys, state \in ButtonStates : DoInputAdd(key, state)
    \/ DoRunFor(FrameTime, Millis(MaxCpuMillis))

SpecCpu == InitCpu /\ [][NextCpu]_vars

-----------------------------------------------------------------------------
(* The CHIP-8 backend running guest programs that take the interpreter to   *)
(* the edges of its state: the stack, the keypad, the address space.        *)

\* The ROMs of SpecGuest with the platform they run on
GuestPrograms ==
    {\* D005 D005 1204: draw at the origin, draw again, loop
     <<RomOf(<<53253, 53253, 4612>>), Chip8>>,
     <<RomOf(<<53253, 53253, 4612>>), SuperChip>>,
     \* 2200: a subroutine that calls itself
     <<RomOf(<<8704>>), Chip8>>,
     \* 2206 00EE 1200 00EE: call 206, return to 202, return with an empty stack
     <<RomOf(<<8710, 238, 4608, 238>>), SuperChip>>,
     \* 6010 E09E 1200: ask for the key 16, pressed
     <<RomOf(<<24592, 57502, 4608>>), Chip8>>,
     \* 63FF E3A1 1200: ask for the key 255, released
     <<RomOf(<<25599, 58273, 4608>>), SuperChip>>,
     \* 1FFF: a jump to the last address, where no opcode can be fetched
     <<RomFetchFault, Chip8>>,
     \* AFFE D002 1204: a sprite whose second row lies past the memory
     <<RomOf(<<45054, 53250, 4612>>), Chip8>>,
     <<RomOf(<<45054, 53250, 4612>>), SuperChip>>,
     \* D005 6001 1204: a draw, then instructions that do not draw
     <<RomOf(<<53253, 24577, 4612>>), Chip8>>,
     \* 1200 and 3583 bytes that are not zero: a ROM 2 bytes longer than the RAM
     <<[i \in 1..3585 |-> IF i = 1 THEN 18 ELSE IF i = 2 THEN 0 ELSE (i % 250) + 1],
       Chip8>>}

InitGuest ==
    /\ \E program \in GuestPrograms : Start(CreateChip8Backend(program[1], program[2]))
    /\ ringbuffer = RingbufferNew(0) /\ callers = <<>>
    /\ adds = 0
    /\ last = NoCall

NextGuest ==
    \/ DoStep(Millis(MaxGuestMillis))
    \/ DoRunFor(FrameTime, Millis(MaxGuestMillis))

SpecGuest == InitGuest /\ [][NextGuest]_vars

-----------------------------------------------------------------------------
(* utils.rs: a Ringbuffer and the threads that call it through its clones.  *)
(* Either one thread calls every operation, on a buffer of any capacity, or *)
(* the backend's thread pushes and the frontend's thread pops, as on the    *)
(* channels of frontend/, which are built with a capacity of 1 at least.    *)
(* The values pushed are 1, 2, 3, ... in the order of the calls.            *)

Caller(ops) ==
    [pc |-> "idle", op |-> "", ops |-> ops, arg |-> 0, before |-> <<>>, got |-> <<>>]

InitRing ==
    /\ Start(BackendDefault)
    /\ \/ /\ callers = [t \in {"main"} |->
                           Caller({"push_back", "pop_front", "drain_and_pop_latest", "len"})]
          /\ \E capacity \in 0..MaxCapacity : ringbuffer = RingbufferNew(capacity)
       \/ /\ callers = [t \in {"backend", "frontend"} |->
                           IF t = "backend" THEN Caller({"push_back"})
                           ELSE Caller({"pop_front", "drain_and_pop_latest", "len"})]
          /\ \E capacity \in 1..MaxCapacity : ringbuffer = RingbufferNew(capacity)
    /\ adds = 0
    /\ last = [op |-> "new", arg |-> 0, before |-> <<>>, after |-> <<>>, ret |-> <<>>,
               res |-> Ok]

NextRing ==
    /\ UNCHANGED <<clock, components, scheduler_queue, mounts, store, next_id,
                   input_queue, frame_queue, audio_queue, text_queue, rng>>
    /\ \E t \in DOMAIN callers :
          \* the thread calls push_back(value)
          \/ /\ callers[t].pc = "idle" /\ "push_back" \in callers[t].ops
             /\ adds < MaxPushes
             /\ callers' = [callers EXCEPT ![t].pc = "lock", ![t].op = "push_back",
                                           ![t].arg = adds + 1]
             /\ adds' = adds + 1
             /\ UNCHANGED <<ringbuffer, last>>
          \* the thread calls pop_front(), drain_and_pop_latest() or len()
          \/ /\ callers[t].pc = "idle"
             /\ \E op \in callers[t].ops \ {"push_back"} :
                   callers' = [callers EXCEPT ![t].pc = "lock", ![t].op = op]
             /\ UNCHANGED <<ringbuffer, adds, last>>
          \* self.0.lock().unwrap() returns the guard
          \/ /\ callers[t].pc = "lock" /\ MutexFree(ringbuffer)
             /\ ringbuffer' = [ringbuffer EXCEPT !.locked = @ \cup {t}]
             /\ callers' = [callers EXCEPT ![t].pc = "locked",
                                           ![t].before = ringbuffer.queue]
             /\ UNCHANGED <<adds, last>>
          \* push_back: if queue.len() >= self.1 { queue.pop_front(); }
          \/ /\ callers[t].pc = "locked" /\ callers[t].op = "push_back"
             /\ ringbuffer' = [ringbuffer EXCEPT
                                  !.queue = RingbufferEvict(@, ringbuffer.capacity)]
             /\ callers' = [callers EXCEPT ![t].pc = "evicted"]
             /\ UNCHANGED <<adds, last>>
          \* push_back: queue.push_back(value), and the guard is dropped
          \/ /\ callers[t].pc = "evicted"
             /\ ringbuffer' = [ringbuffer EXCEPT !.queue = Append(@, callers[t].arg),
                                                 !.locked = @ \ {t}]
             /\ callers' = [callers EXCEPT ![t].pc = "idle"]
             /\ last' = [op |-> "push_back", arg |-> callers[t].arg,
                         before |-> callers[t].before,
                         after |-> Append(ringbuffer.queue, callers[t].arg),
                         ret |-> <<>>, res |-> Ok]
             /\ UNCHANGED adds
          \* pop_front, and the guard is dropped
          \/ /\ callers[t].pc = "locked" /\ callers[t].op = "pop_front"
             /\ Len(callers[t].got) <= MaxPushes
             /\ LET r == RingbufferPopFront(ringbuffer.queue)
                IN /\ ringbuffer' = [ringbuffer EXCEPT !.queue = r.queue, !.locked = @ \ {t}]
                   /\ callers' = [callers EXCEPT ![t].pc = "idle", ![t].got = @ \o r.ret]
                   /\ last' = [op |-> "pop_front", arg |-> 0, before |-> ringbuffer.queue,
                               after |-> r.queue, ret |-> r.ret, res |-> Ok]
             /\ UNCHANGED adds
          \* drain_and_pop_latest, and the guard is dropped
          \/ /\ callers[t].pc = "locked" /\ callers[t].op = "drain_and_pop_latest"
             /\ Len(callers[t].got) <= MaxPushes
             /\ LET r == RingbufferDrainAndPopLatest(ringbuffer.queue)
                IN /\ ringbuffer' = [ringbuffer EXCEPT !.queue = r.queue, !.locked = @ \ {t}]
                   /\ callers' = [callers EXCEPT ![t].pc = "idle", ![t].got = @ \o r.ret]
                   /\ last' = [op |-> "drain_and_pop_latest", arg |-> 0,
                               before |-> ringbuffer.queue, after |-> r.queue,
                               ret |-> r.ret, res |-> Ok]
             /\ UNCHANGED adds
          \* len, and the guard is dropped
          \/ /\ callers[t].pc = "locked" /\ callers[t].op = "len"
             /\ ringbuffer' = [ringbuffer EXCEPT !.locked = @ \ {t}]
             /\ callers' = [callers EXCEPT ![t].pc = "idle"]
             /\ last' = [op |-> "len", arg |-> 0, before |-> ringbuffer.queue,
                         after |-> ringbuffer.queue, ret |-> <<Len(ringbuffer.queue)>>,
                         res |-> Ok]
             /\ UNCHANGED adds

SpecRing == InitRing /\ [][NextRing]_vars

-----------------------------------------------------------------------------
(* backend/memory.rs: a MemoryBlock in the hands of its owner, before it is *)
(* given to Component::new.  The block is store[1].                         *)

InitBlock ==
    /\ Start([BackendDefault EXCEPT
                 !.store = [id \in {1} |->
                               MemoryBlockResize(MemoryBlockFrom(<<>>), MaxBlockSize)]])
    /\ ringbuffer = RingbufferNew(0) /\ callers = <<>>
    /\ adds = 0
    /\ last = [op |-> "new", address |-> 0, bytes |-> <<>>, res |-> Ok]

NextBlock ==
    /\ UNCHANGED <<clock, components, scheduler_queue, mounts, next_id, input_queue,
                   frame_queue, audio_queue, text_queue, rng, ringbuffer, callers, adds>>
    /\ \/ \* block.set_read_only()
          /\ store' = [store EXCEPT ![1] = MemoryBlockSetReadOnly(@)]
          /\ last' = [op |-> "set_read_only", address |-> 0, bytes |-> <<>>, res |-> Ok]
       \* block.write(address, bytes)
       \/ \E address \in 0..(MaxBlockSize + 1), bytes \in {<<>>, <<7>>, <<0, 9>>} :
             LET w == MemoryBlockWrite(store[1], address, bytes)
             IN /\ store' = [store EXCEPT ![1] = w.m]
                /\ last' = [op |-> "write", address |-> address, bytes |-> bytes,
                            res |-> w.res]
       \* block.read(address, buffer) with a buffer of n bytes
       \/ \E address \in 0..(MaxBlockSize + 1), n \in 0..2 :
             LET r == MemoryBlockRead(store[1], address, n)
             IN /\ UNCHANGED store
                /\ last' = [op |-> "read", address |-> address,
                            bytes |-> IF r.res = Ok THEN r.bytes ELSE [i \in 1..n |-> 0],
                            res |-> r.res]

SpecBlock == InitBlock /\ [][NextBlock]_vars

-----------------------------------------------------------------------------
(* The scheduler's contract: Spec drives a backend built by its caller,     *)
(* SpecChip8 the backend of create_chip8_backend.                           *)

\* C1: over any sequence of add_component, add_addressable_component, step,
\* run_until and run_for, the clock after an operation is greater than or
\* equal to the clock before it.
ClockNeverDecreases == [][clock' >= clock]_vars

\* C2, for the calls that return Ok: after run_for(d) the clock has advanced
\* by at least d and by less than d plus the timer's period of 1/60 s.
RunForAdvancesWhenOk ==
    (last.op = "run_for" /\ last.res = Ok) =>
        /\ clock >= last.start + last.arg
        /\ clock < last.start + last.arg + TIMER_CLOCK_SPEED_NS

\* a run_for over a time that no event falls on exactly has returned Ok
RunForOvershoots ==
    /\ last.op = "run_for" /\ last.res = Ok /\ last.arg > 0
    /\ Len(last.log) > 1
    /\ clock > last.start + last.arg

\* C2 as the specification states it: after any run_for(d) that returns, Ok
\* or an error, the clock has advanced by at least d and by less than
\* d + 1/60 s.
RunForAdvances ==
    (last.op = "run_for" /\ last.res # Panic) =>
        /\ clock >= last.start + last.arg
        /\ clock < last.start + last.arg + TIMER_CLOCK_SPEED_NS

\* C3: the queue holds exactly one event for every steppable component that
\* the name map registers, and no event for any other component.
QueueHoldsRegisteredOnce ==
    \A id \in DOMAIN store :
        Cardinality({k \in DOMAIN scheduler_queue : scheduler_queue[k].component = id})
            = IF IsSteppable(store[id]) /\ id \in Range(components) THEN 1 ELSE 0

\* C4: a step runs a component whose event has the least timestamp of the
\* queue, the component sees the clock set to that timestamp, and after Ok
\* the same component is queued again at the clock plus the returned duration.
StepRunsEarliest ==
    /\ \A k \in DOMAIN last.log :
          /\ last.log[k].at = last.log[k].earliest
          /\ last.log[k].seen = last.log[k].at
          /\ last.log[k].res = Ok =>
                last.log[k].next = last.log[k].seen + last.log[k].dur
    /\ (last.op = "step" /\ last.res = Ok) =>
          /\ clock = last.log[1].at
          /\ Pending(scheduler_queue) = last.log[1].pending
          /\ \E k \in DOMAIN scheduler_queue :
                scheduler_queue[k] = [clock_cycle |-> clock + last.log[1].dur,
                                      component |-> last.log[1].component]

\* a step that had events of different timestamps to choose from, and
\* advanced the clock
StepChoseAmongTimes ==
    /\ last.op = "step" /\ last.res = Ok
    /\ last.log[1].clock_before < last.log[1].at
    /\ last.log[1].dur > 0
    /\ \E k \in DOMAIN scheduler_queue :
          /\ scheduler_queue[k].component # last.log[1].component
          /\ scheduler_queue[k].clock_cycle > last.log[1].at

\* C5: when a component's step returns an error, the call returns that error,
\* the queue holds the same components as before the call, and the component's
\* event is back in the queue at the clock the step advanced to.
ErrorStepRequeues ==
    \A k \in DOMAIN last.log :
        last.log[k].res \notin {Ok, Panic} =>
            /\ k = Len(last.log)
            /\ last.res = last.log[k].res
            /\ clock = last.log[k].at
            /\ last.log[k].next = clock
            /\ Pending(scheduler_queue) = last.log[k].pending
            /\ \E q \in DOMAIN scheduler_queue :
                  scheduler_queue[q] = [clock_cycle |-> clock,
                                        component |-> last.log[k].component]

\* a step that failed after the clock had advanced, with other components
\* waiting for later times
FaultAtAdvancedClock ==
    /\ last.op = "step" /\ last.res \notin {Ok, Panic}
    /\ clock > INSTANT_START
    /\ last.log[1].clock_before < clock
    /\ \E q \in DOMAIN scheduler_queue : scheduler_queue[q].clock_cycle > clock

\* C6: run_until(target) steps not at all when the clock is at the target or
\* past it, and otherwise steps while the clock is before the target; the
\* first error ends the call and is what it returns; run_for(d) is
\* run_until(clock + d).
RunUntilLoopsWhileBefore ==
    last.op \in {"run_until", "run_for"} =>
        LET target == IF last.op = "run_for" THEN last.start + last.arg ELSE last.arg
            log == last.log
        IN /\ last.start >= target =>
                 log = <<>> /\ last.res = Ok /\ clock = last.start
           /\ \A k \in DOMAIN log :
                 /\ log[k].clock_before < target
                 /\ log[k].clock_before = IF k = 1 THEN last.start ELSE log[k - 1].seen
                 /\ k < Len(log) => log[k].res = Ok
           /\ last.res = Ok => clock >= target
           /\ (last.res # Panic /\ log # <<>>) =>
                 last.res = log[Len(log)].res /\ clock = log[Len(log)].seen
           /\ (last.res \notin {Ok, Panic}) => log # <<>>

\* a run_until that stepped, and that a step's error ended before the target
RunUntilEndedByError ==
    /\ last.op = "run_until"
    /\ Len(last.log) > 1
    /\ last.res \notin {Ok, Panic}
    /\ clock < last.arg

-----------------------------------------------------------------------------
(* Events of one timestamp.  Ord for SchedulerEvent compares clock_cycle     *)
(* alone, so the order of events of one timestamp is the heap's affair.      *)

\* the components whose events carry the least timestamp of the queue
Tied(b) ==
    {b.scheduler_queue[k].component :
        k \in {q \in DOMAIN b.scheduler_queue :
                  \A o \in DOMAIN b.scheduler_queue :
                      b.scheduler_queue[q].clock_cycle <= b.scheduler_queue[o].clock_cycle}}

\* Backend::step where the pop yields the event of component id, one of Tied(b)
StepOf(b, id) ==
    LET k == CHOOSE q \in DOMAIN b.scheduler_queue : b.scheduler_queue[q].component = id
    IN BackendStepPopped(b, [item |-> b.scheduler_queue[k],
                             data |-> [q \in 1..(Len(b.scheduler_queue) - 1) |->
                                          IF q < k THEN b.scheduler_queue[q]
                                          ELSE b.scheduler_queue[q + 1]]])

\* the steps of the components of order, one after the other
RECURSIVE StepAll(_, _)
StepAll(b, order) ==
    IF order = <<>> THEN b
    ELSE StepAll(StepOf(b, Head(order)).b, Tail(order))

\* what the CPU and the frontend see: the registers, DT and ST, the frames
\* and the samples sent
Observable(b) ==
    [v |-> b.store[CpuId].state.v,
     dt |-> ReadU8(b, DT_TIMER).value,
     st |-> ReadU8(b, ST_TIMER).value,
     frames |-> b.frame_queue,
     samples |-> b.audio_queue]

\* whatever the order in which the tied components are stepped, the CPU and
\* the frontend see the same
OrdersAgree(b) ==
    LET orders == {p \in [1..Cardinality(Tied(b)) -> Tied(b)] :
                      \A m, n \in DOMAIN p : m # n => p[m] # p[n]}
    IN \A p, q \in orders : Observable(StepAll(b, p)) = Observable(StepAll(b, q))

\* C7, for the events of the origin: whichever of timer, CPU and audio is
\* stepped first at Instant::START, the DT and ST values the CPU sees and the
\* frames and samples are the same.
OriginTieOrderIrrelevant ==
    (Alive /\ scheduler_queue # <<>>
        /\ \A k \in DOMAIN scheduler_queue :
              scheduler_queue[k].clock_cycle = INSTANT_START) =>
        OrdersAgree(Cur)

\* one component has been stepped at the origin, two are left there
TwoLeftAtOrigin ==
    /\ last.op = "step" /\ last.res = Ok
    /\ Cardinality(Tied(Cur)) = 2
    /\ \A k \in DOMAIN scheduler_queue :
          scheduler_queue[k].component \in Tied(Cur) =>
              scheduler_queue[k].clock_cycle = INSTANT_START

\* C7 as the specification states it: wherever two events carry the same
\* timestamp, at the origin or on a VBlank boundary, the order of their steps
\* changes neither DT and ST as the CPU sees them nor the frames and samples.
TieOrderIrrelevant ==
    (Alive /\ scheduler_queue # <<>>) => OrdersAgree(Cur)

-----------------------------------------------------------------------------
(* FX0A, the wait for a key, under SpecCpu.  Of the keys of SpecCpu the      *)
(* keyboard's X is the hex key 0 and Number1 the hex key 1; B is none.       *)

\* C9: while the CPU waits for a key, a CPU step that drains no Released event
\* of a hex key fetches nothing and leaves PC, I, SP, the stack, the V
\* registers and the frame buffer as they were, and the CPU goes on waiting,
\* whatever Pressed events and events of other keys the step drains.
WaitHoldsWithoutRelease ==
    \A k \in DOMAIN last.log :
        LET e == last.log[k]
        IN (/\ e.component = CpuId
            /\ e.detail.before.waiting_for_key # NoKey
            /\ \A q \in DOMAIN e.detail.drained :
                  ~(/\ e.detail.drained[q][2].state = Released
                    /\ e.detail.drained[q][2].key \in {"X", "Number1"})) =>
               /\ ~e.detail.fetched
               /\ e.detail.after.pc = e.detail.before.pc
               /\ e.detail.after.i = e.detail.before.i
               /\ e.detail.after.sp = e.detail.before.sp
               /\ e.detail.after.stack = e.detail.before.stack
               /\ e.detail.after.v = e.detail.before.v
               /\ e.detail.after.frame_buffer = e.detail.before.frame_buffer
               /\ e.detail.after.waiting_for_key = e.detail.before.waiting_for_key

\* a waiting CPU has drained the press of a hex key and the release of a key
\* that is no hex key, and waits on
WaitSurvivesPressAndOtherKey ==
    \E k \in DOMAIN last.log :
        /\ last.log[k].component = CpuId
        /\ last.log[k].detail.before.waiting_for_key # NoKey
        /\ \E q, o \in DOMAIN last.log[k].detail.drained :
              /\ last.log[k].detail.drained[q][2] = InputEvent("X", Pressed)
              /\ last.log[k].detail.drained[o][2] = InputEvent("B", Released)
        /\ last.log[k].detail.after.waiting_for_key # NoKey

\* C10: while the CPU waits for a key into V[X], the first Released event of a
\* hex key that a step drains puts the key's value into V[X] and ends the
\* wait; the step fetches and executes the instruction at PC; Released events
\* drained after the first leave V[X] alone.
ReleaseEndsWait ==
    \A k \in DOMAIN last.log :
        LET e == last.log[k]
        IN (/\ e.component = CpuId
            /\ e.detail.before.waiting_for_key # NoKey
            /\ \E q \in DOMAIN e.detail.drained :
                  /\ e.detail.drained[q][2].state = Released
                  /\ e.detail.drained[q][2].key \in {"X", "Number1"}) =>
               LET d == e.detail
                   x == d.before.waiting_for_key
                   first == Min({q \in DOMAIN d.drained :
                                    /\ d.drained[q][2].state = Released
                                    /\ d.drained[q][2].key \in {"X", "Number1"}})
                   value == IF d.drained[first][2].key = "X" THEN 0 ELSE 1
                   at == d.before.pc - RAM_BASE
               IN /\ d.handled.v[x] = value
                  /\ d.handled.waiting_for_key = NoKey
                  /\ d.fetched
                  /\ d.opcode = RomWaitKey[at + 1] * 256 + RomWaitKey[at + 2]
                  /\ d.after.v[x] = value
                  /\ d.after.pc = d.before.pc + 2
                  \* F40A has begun the wait for V4, 6A01 has set VA
                  /\ d.opcode = 62474 => d.after.waiting_for_key = 4
                  /\ d.opcode = 27137 => d.after.v[10] = 1

\* a waiting CPU has drained the release of Number1 and then the release of X
\* in one step
TwoReleasesInOneStep ==
    \E k \in DOMAIN last.log :
        /\ last.log[k].component = CpuId
        /\ last.log[k].detail.before.waiting_for_key # NoKey
        /\ Len(last.log[k].detail.drained) = 2
        /\ last.log[k].detail.drained[1][2] = InputEvent("Number1", Released)
        /\ last.log[k].detail.drained[2][2] = InputEvent("X", Released)
        /\ last.log[k].detail.fetched
        /\ last.log[k].detail.after.v[last.log[k].detail.before.waiting_for_key] = 1

-----------------------------------------------------------------------------
(* The CPU's timing and its faults, under SpecGuest.                        *)

\* the steps of the CPU in the last call
CpuEntries == {k \in DOMAIN last.log : last.log[k].component = CpuId}
\* the CPU step k of the last call fetched an opcode whose first nibble is hi
Fetched(k, hi) ==
    /\ last.log[k].detail.fetched
    /\ last.log[k].detail.opcode \div 4096 = hi

\* C11: under the CHIP-8 profile a CPU step that executes DRW at clock t
\* returns a duration D, 0 < D <= 16,666,666 ns, with t + D the smallest
\* multiple of 16,666,666 ns greater than t; under SUPER-CHIP the same step,
\* and under both profiles a step that executes no DRW, returns 1,428,571 ns.
DrawWaitsForVBlank ==
    \A k \in CpuEntries :
        last.log[k].res = Ok =>
            LET t == last.log[k].seen
                D == last.log[k].dur
            IN IF Fetched(k, 13) /\ ~store[CpuId].quirks.quirks_draw_not_waiting_for_vblank
               THEN /\ 0 < D /\ D <= VBLANK_CLOCK_SPEED_NS
                    /\ (t + D) % VBLANK_CLOCK_SPEED_NS = 0
                    /\ \A m \in 0..(t \div VBLANK_CLOCK_SPEED_NS + 1) :
                          m * VBLANK_CLOCK_SPEED_NS > t => m * VBLANK_CLOCK_SPEED_NS >= t + D
               ELSE D = CLOCK_SPEED_NS

\* a DRW at a clock that is a 60 Hz boundary itself, after the origin:
\* the step waits a whole period
DrawOnBoundary ==
    \E k \in CpuEntries :
        /\ last.log[k].res = Ok /\ Fetched(k, 13)
        /\ last.log[k].seen = VBLANK_CLOCK_SPEED_NS
        /\ last.log[k].dur = VBLANK_CLOCK_SPEED_NS

\* C12: for every sequence of CALL (2NNN) and RET (00EE), more than 16
\* nested CALLs and RET with SP = 0 included, the CPU step completes with Ok
\* or an emulator error, and the stack is accessed at an index in 0..15 only.
CallReturnStayInStack ==
    \A k \in CpuEntries :
        (Fetched(k, 2) \/ (last.log[k].detail.fetched /\ last.log[k].detail.opcode = 238)) =>
            /\ last.log[k].res # Panic
            /\ last.log[k].detail.before.sp \in 0..16
            /\ Fetched(k, 2) => last.log[k].detail.before.sp \in 0..15

\* C13: EX9E or EXA1 executed with V[X] > 15 returns an emulator error from
\* the step or answers for a clamped key, skipping or not; the step completes
\* and the backend can be stepped again.
KeyQueryOutOfRangeCompletes ==
    \A k \in CpuEntries :
        LET d == last.log[k].detail
            x == (d.opcode \div 256) % 16
        IN (Fetched(k, 14) /\ d.opcode % 256 \in {158, 161} /\ d.before.v[x] > 15) =>
               /\ last.log[k].res # Panic
               /\ last.log[k].res = Ok => d.after.pc \in {d.before.pc + 2, d.before.pc + 4}
               /\ Alive

\* C14: when the caller keeps calling step() after the step of a component
\* returned an error, a component other than the failed one is eventually
\* stepped and the clock eventually passes the time of the fault. step() is
\* a function of the backend's state, so this needs that no step() which
\* returns an error leaves the backend exactly as it found it: from such a
\* state every further step() is the same step of the same component at the
\* same clock.
StepErrorIsLeftBehind ==
    (Alive /\ scheduler_queue # <<>>) =>
        LET s == BackendStep(Cur)
        IN ~(s.res \notin {Ok, Panic} /\ s.b = Cur)

-----------------------------------------------------------------------------
(* The Ringbuffer, under SpecRing.                                          *)

\* C15: for a Ringbuffer of any capacity N, push_back on a buffer holding
\* fewer than N elements appends and removes nothing, push_back on a buffer
\* holding N elements removes the oldest element and appends; after any
\* sequence of push_back, pop_front and drain_and_pop_latest the buffer holds
\* at most N elements, in the order they were pushed.
PushBackKeepsCapacity ==
    LET queue == ringbuffer.queue
        N == ringbuffer.capacity
    IN /\ last.op = "push_back" =>
             last.after = Append(IF Len(last.before) < N THEN last.before
                                 ELSE SubSeq(last.before, 2, Len(last.before)),
                                 last.arg)
       /\ Len(queue) <= N
       /\ \A i, j \in DOMAIN queue : i < j => queue[i] < queue[j]

\* C16: pop_front removes and returns the oldest element still in the
\* buffer, and returns None on an empty buffer, which stays empty;
\* drain_and_pop_latest leaves the buffer empty and returns the element
\* pushed last of those it held, None when it held none.
PopFrontOldestDrainLatest ==
    LET before == last.before
    IN /\ last.op = "pop_front" =>
             IF before = <<>> THEN last.ret = <<>> /\ last.after = <<>>
             ELSE /\ last.ret = <<before[1]>>
                  /\ \A i \in DOMAIN before : before[1] <= before[i]
                  /\ last.after = Tail(before)
       /\ last.op = "drain_and_pop_latest" =>
             /\ last.after = <<>>
             /\ IF before = <<>> THEN last.ret = <<>>
                ELSE /\ last.ret = <<before[Len(before)]>>
                     /\ \A i \in DOMAIN before : before[i] <= last.ret[1]

\* pop_front has returned the first value of a buffer of two, and
\* drain_and_pop_latest then the last of two
PoppedOldestDrainedLatest ==
    /\ last.op = "drain_and_pop_latest" /\ Len(last.before) = 2 /\ last.ret = <<3>>
    /\ \E t \in DOMAIN callers : callers[t].got = <<1, 3>>

-----------------------------------------------------------------------------
(* The input channel, under SpecCpu.                                        *)

\* C18: the CPU applies the input events to the keypad state in the order
\* InputSender::add enqueued them, each event once at most, and a CPU step
\* drains every event pending at its start before it fetches an instruction.
InputDrainedInOrder ==
    \A k \in CpuEntries :
        LET d == last.log[k].detail
            n == Len(d.drained)
            Applied[i \in 0..n] ==
                IF i = 0 THEN d.before.keypad_state
                ELSE ParseInputEvent(Applied[i - 1], d.drained[i][2])
        IN /\ d.handled.keypad_state = Applied[n]
           /\ d.after.keypad_state = d.handled.keypad_state
           /\ d.fetched => d.handled.waiting_for_key = NoKey
           /\ (d.handled.waiting_for_key = NoKey /\ last.log[k].res = Ok) => d.fetched
           /\ \A j \in CpuEntries : j > k => last.log[j].detail.drained = <<>>

\* a CPU step has drained a press and then a release of one key, and
\* fetched an instruction
PressAndReleaseDrainedThenFetch ==
    \E k \in CpuEntries :
        LET d == last.log[k].detail
        IN /\ Len(d.drained) >= 2 /\ d.fetched
           /\ d.drained[1][2].key = d.drained[2][2].key
           /\ d.drained[1][2].state = Pressed /\ d.drained[2][2].state = Released
           /\ ButtonOfKey(d.drained[1][2].key) # NoButton

-----------------------------------------------------------------------------
(* The bus, under Spec.                                                     *)

\* C19: for every component mounted at base b with size s, and every address
\* a and length n >= 1 with b <= a and a + n <= b + s, Bus.read(a, n) returns
\* the bytes of the component's own read at a - b and Bus.write(a, bytes)
\* has the effect of the component's own write at a - b.  The ranges tried
\* are the first and the last 1 and 2 bytes of each mount.
BusAgreesWithComponent ==
    \A k \in DOMAIN mounts :
        LET m == mounts[k]
            c == m.component
        IN \A n \in 1..2 : \A a \in {m.base, m.base + m.size - n} :
              LET bytes == [i \in 1..n |-> 170 + i]
                  w == BusWrite(Cur, a, bytes)
                  own == MemoryBlockWrite(store[c], a - m.base, bytes)
              IN (m.base <= a /\ a + n <= m.base + m.size) =>
                    /\ BusRead(Cur, a, n) = MemoryBlockRead(store[c], a - m.base, n)
                    /\ w.res = own.res
                    /\ w.b = [Cur EXCEPT !.store[c] = own.m]

\* C20: after any sequence of Bus.insert calls the mounts are sorted by base
\* and their ranges [base, base + size) are pairwise disjoint, so that at
\* most one mount contains any address.
MountsSortedAndDisjoint ==
    \A i, j \in DOMAIN mounts :
        i < j =>
            /\ mounts[i].base <= mounts[j].base
            /\ mounts[i].base + mounts[i].size <= mounts[j].base
            /\ \A a \in {mounts[i].base, mounts[j].base} :
                  ~(BusMountContains(mounts[i], a) /\ BusMountContains(mounts[j], a))

-----------------------------------------------------------------------------
(* The bus and the memory of the CHIP-8 backend.                            *)

\* C21: a bus read or write of a range [a, a + n) that is not entirely inside
\* one mount (an unmapped address, a range over two adjacent mounts, n = 0)
\* fails with Misc and changes no byte of any component.  The ranges tried
\* lie around the ends of the mounts.
OutsideOneMountIsMisc ==
    \A n \in 0..2 :
        \A a \in {mounts[k].base + mounts[k].size - d : k \in DOMAIN mounts, d \in 0..2} :
            LET inside == /\ n >= 1
                          /\ \E k \in DOMAIN mounts :
                                /\ mounts[k].base <= a
                                /\ a + n <= mounts[k].base + mounts[k].size
                bytes == [i \in 1..n |-> 170 + i]
            IN ~inside =>
                  /\ BusRead(Cur, a, n).res = Misc
                  /\ BusWrite(Cur, a, bytes) = [res |-> Misc, b |-> Cur]

\* the CPU's fetch of two bytes at 0xFFF, past the last mount, has failed
\* with Misc, and a range over the two mounts exists
FetchPastLastMount ==
    /\ \E k \in CpuEntries :
          /\ last.log[k].res = Misc /\ ~last.log[k].detail.fetched
          /\ last.log[k].detail.before.pc = 4095
    /\ \E i, j \in DOMAIN mounts : mounts[i].base + mounts[i].size = mounts[j].base

RomLoadedAt200 ==
    last.op = "new" =>
        \E program \in GuestPrograms :
            LET rom_data == program[1]
                L == Len(rom_data)
            IN /\ Cur = CreateChip8Backend(rom_data, program[2])
               /\ \A i \in 0..(3583 - 1) :
                     BusRead(Cur, 512 + i, 1) =
                         [res |-> Ok, bytes |-> <<IF i < L THEN rom_data[i + 1] ELSE 0>>]
               /\ BusRead(Cur, FONT_BASE, Len(FONT_SET)) = [res |-> Ok, bytes |-> FONT_SET]
               /\ \A k \in DOMAIN mounts : mounts[k].base + mounts[k].size <= 4096
               /\ BusRead(Cur, 512 + 3583, 1).res = Misc

\* the backend built with a ROM longer than the RAM: the last byte of the RAM
\* is the ROM's, and short ROMs were loaded too
LongRomCut ==
    /\ last.op = "new"
    /\ BusRead(Cur, 4094, 1).bytes # <<0>>
    /\ \E program \in GuestPrograms :
          Len(program[1]) > 3583 /\ Cur = CreateChip8Backend(program[1], program[2])

-----------------------------------------------------------------------------
(* The timer and the audio of the CHIP-8 backend, under SpecChip8: a step() *)
(* call runs one component, between the state before and the state after.  *)

\* C24: a Timer step decrements DT (bus byte 0x100) by 1 if DT > 0 and ST
\* (bus byte 0x101) by 1 if ST > 0, leaves a timer that is 0 at 0, changes no
\* other byte of the bus, and returns the period of 1/60 s.
TimerCountsDown ==
    [][(last'.op = "step" /\ last'.log # <<>> /\ last'.log[1].component = TimerId) =>
          LET Byte(st, a) == ByteAt(st[1].data, a)
              Down(v) == IF v > 0 THEN v - 1 ELSE 0
          IN /\ last'.res = Ok
             /\ last'.log[1].dur = TIMER_CLOCK_SPEED_NS
             /\ Byte(store', DT_TIMER) = Down(Byte(store, DT_TIMER))
             /\ Byte(store', ST_TIMER) = Down(Byte(store, ST_TIMER))
             /\ \A a \in 0..(INTERPRETER_SIZE - 1) \ {DT_TIMER, ST_TIMER} :
                   Byte(store', a) = Byte(store, a)
             /\ store'[2] = store[2]
      ]_vars

\* a Timer step has taken the sound timer from 3 to 2 and left the delay
\* timer at 0
SoundTimerCountedDown ==
    /\ last.op = "step" /\ last.log # <<>> /\ last.log[1].component = TimerId
    /\ last.log[1].at = TIMER_CLOCK_SPEED_NS
    /\ ByteAt(store[1].data, ST_TIMER) = 2
    /\ ByteAt(store[1].data, DT_TIMER) = 0

-----------------------------------------------------------------------------
(* The audio of the CHIP-8 backend over a second of sound, under SpecSound *)

\* A guest that sets ST to 255, a sound of 4.25 s, and a guest that never
\* sounds.  The frontend steps through the first MaxSoundMillis milliseconds,
\* or runs from the start to MaxWrapSteps audio steps before the Audio has
\* counted AUDIO_SAMPLING_RATE samples and steps from there.
InitSound ==
    /\ \E rom_data \in {RomOf(<<24831, 61464, 4612>>),      \* 60FF F018 1204
                         RomOf(<<4608>>)} :                  \* 1200
          Start(CreateChip8Backend(rom_data, Chip8))
    /\ ringbuffer = RingbufferNew(0) /\ callers = <<>>
    /\ adds = 0
    /\ last = NoCall

NextSound ==
    \/ DoStep(Millis(MaxSoundMillis))
    \/ /\ last = NoCall
       /\ DoRunFor((AUDIO_SAMPLING_RATE - MaxWrapSteps) * AUDIO_CLOCK_SPEED_NS, 0)
    \/ /\ clock >= (AUDIO_SAMPLING_RATE - MaxWrapSteps) * AUDIO_CLOCK_SPEED_NS
       /\ DoStep(AUDIO_SAMPLING_RATE * AUDIO_CLOCK_SPEED_NS)

SpecSound == InitSound /\ [][NextSound]_vars

-----------------------------------------------------------------------------
(* Single instructions of the CHIP-8 CPU over drawn operands, under SpecIns *)

\* Guests that load two registers X and Y with the bytes a and b and
\* execute the instructions under test, on either platform:
\*   6Xaa 6Ybb A050 DXYn 7X01 DXYn 120A   two draws of the font, one column apart
\*   6Xaa 6Ybb 8XYk 1206                  k = 4 ADD, 5 SUB, 6 SHR, 7 SUBN, E SHL
\*   6011 6122 6F33 Annn FX55 120A        V0..VX stored at 1FF, 300 and FF0
\*   6F33 Annn FX65 1206                  V0..VX loaded from 050, 1FF and FF0
\*   6004 6208 Bnnn 1206 1208             jump to V0 + nnn, or to V[n] + nnn
\*   6Xaa FX29 1204                       I to the glyph of V[X]
\*   6001 word 1204 1206                  words in and out of the decoding table:
\*                                        5010 5011 501F 9010 9011 8128 812F E100
\*                                        E19E F100 F166 0123
InsPrograms ==
    {<<RomOf(<<24576 + 256 * X + a, 24576 + 256 * Y + b, 41040,
               53248 + 256 * X + 16 * Y + n, 28673 + 256 * X,
               53248 + 256 * X + 16 * Y + n, 4618>>), platform>> :
        X \in {0, 1, 15}, Y \in {0, 1, 15}, a \in {0, 70, 126}, b \in {0, 33, 62},
        n \in {0, 1, 5, 15}, platform \in Platforms}
    \cup
    {<<RomOf(<<24576 + 256 * X + a, 24576 + 256 * Y + b,
               32768 + 256 * X + 16 * Y + k, 4614>>), platform>> :
        X \in {0, 1, 15}, Y \in {0, 1, 15}, a \in {0, 1, 127, 128, 255},
        b \in {0, 1, 127, 128, 255}, k \in {4, 5, 6, 7, 14}, platform \in Platforms}
    \cup
    {<<RomOf(<<24593, 24866, 28467, 40960 + nnn, 61440 + 256 * X + 85, 4618>>),
       platform>> :
        X \in {0, 1, 2, 15}, nnn \in {511, 768, 4080}, platform \in Platforms}
    \cup
    {<<RomOf(<<28467, 40960 + nnn, 61440 + 256 * X + 101, 4614>>), platform>> :
        X \in {0, 1, 2, 15}, nnn \in {80, 511, 4080}, platform \in Platforms}
    \cup
    {<<RomOf(<<24580, 25096, 45056 + nnn, 4614, 4616>>), platform>> :
        nnn \in {0, 255, 516, 4095}, platform \in Platforms}
    \cup
    {<<RomOf(<<24576 + 256 * X + a, 61481 + 256 * X, 4612>>), platform>> :
        X \in {0, 1, 15}, a \in 0..15, platform \in Platforms}
    \cup
    {<<RomOf(<<24577, word, 4612, 4614>>), platform>> :
        word \in {20496, 20497, 20511, 36880, 36881, 33064, 33071, 57600, 57758,
                  61696, 61798, 291},
        platform \in Platforms}

InitIns ==
    /\ \E program \in InsPrograms :
          Start(CreateChip8Backend(program[1], program[2]))
    /\ ringbuffer = RingbufferNew(0) /\ callers = <<>>
    /\ adds = 0
    /\ last = NoCall

\* the frontend calls run_for once per frame
NextIns == DoRunFor(FrameTime, Millis(MaxInsMillis))

SpecIns == InitIns /\ [][NextIns]_vars

\* C26: DXYN changes only frame-buffer cells (sy + r, sx + c) with
\* sx = V[X] mod 64, sy = V[Y] mod 32 (the registers as they were before the
\* instruction), 0 <= r < N, 0 <= c < 8, sy + r < 32 and sx + c < 64; rows
\* and columns past the bottom or the right edge are dropped, never wrapped,
\* and every other cell of the 64x32 frame buffer is unchanged
DrawClipsAtEdges ==
    [][\A k \in DOMAIN last'.log :
          LET e == last'.log[k]
              d == e.detail
              X == (d.opcode \div 256) % 16
              Y == (d.opcode \div 16) % 16
              N == d.opcode % 16
              sx == d.before.v[X] % 64
              sy == d.before.v[Y] % 32
              old == d.before.frame_buffer
              new == d.after.frame_buffer
              cells == {(sy + r) * 64 + (sx + c) :
                           r \in {r \in 0..(N - 1) : sy + r < 32},
                           c \in {c \in 0..7 : sx + c < 64}}
          IN (e.component = CpuId /\ d.fetched /\ d.opcode \div 4096 = 13) =>
                /\ (old \ new) \cup (new \ old) \subseteq cells
                /\ new \subseteq 0..(64 * 32 - 1)
      ]_vars

\* A draw of 5 rows at column 62 and row 30 (V[X] = 126, V[Y] = 62): it lit
\* cells of the last two columns and rows only
DrawnAtTheCorner ==
    \E k \in DOMAIN last.log :
        LET e == last.log[k]
            d == e.detail
        IN /\ e.component = CpuId /\ d.fetched /\ d.opcode = 53248 + 16 + 5   \* D015
           /\ d.before.v[0] = 126 /\ d.before.v[1] = 62
           /\ d.before.frame_buffer = {}
           /\ d.after.frame_buffer = {30 * 64 + 62, 30 * 64 + 63, 31 * 64 + 62}
\* C27: after a DXYN that returns Ok every cell of the clipped rectangle holds
\* old XOR sprite bit, and V[F] = 1 if and only if at least one of these cells
\* was on before the draw and its sprite bit was 1; otherwise V[F] = 0,
\* whatever V[F] held before and also when X or Y is 0xF.  The sprite row r
\* is the byte at I + r of the memory.
DrawXorsAndFlagsErase ==
    [][\A k \in DOMAIN last'.log :
          LET e == last'.log[k]
              d == e.detail
              X == (d.opcode \div 256) % 16
              Y == (d.opcode \div 16) % 16
              N == d.opcode % 16
              sx == d.before.v[X] % 64
              sy == d.before.v[Y] % 32
              old == d.before.frame_buffer
              new == d.after.frame_buffer
              Mem(a) == IF a < RAM_BASE THEN ByteAt(store[1].data, a)
                        ELSE ByteAt(store[2].data, a - RAM_BASE)
              SpriteBit(r, c) == (Mem(d.before.i + r) \div (2 ^ (7 - c))) % 2 = 1
              drawn == {rc \in (0..(N - 1)) \X (0..7) : sy + rc[1] < 32 /\ sx + rc[2] < 64}
              Cell(rc) == (sy + rc[1]) * 64 + sx + rc[2]
          IN (e.component = CpuId /\ d.fetched /\ d.opcode \div 4096 = 13 /\ e.res = Ok) =>
                /\ \A rc \in drawn :
                      (Cell(rc) \in new) <=> ((Cell(rc) \in old) # SpriteBit(rc[1], rc[2]))
                /\ d.after.v[15] =
                      (IF \E rc \in drawn : Cell(rc) \in old /\ SpriteBit(rc[1], rc[2])
                       THEN 1 ELSE 0)
      ]_vars

\* A second draw through V[F] (DF15 with V[F] = 1 left by 7F01 and V[1] = 0):
\* it erased pixels of the first draw and lit others, and V[F] is 1
DrawErasedThroughVF ==
    \E k \in DOMAIN last.log :
        LET e == last.log[k]
            d == e.detail
        IN /\ e.component = CpuId /\ d.fetched /\ e.res = Ok
           /\ d.opcode = 53248 + 256 * 15 + 16 + 5                       \* DF15
           /\ d.before.v[15] = 1 /\ d.after.v[15] = 1
           /\ d.before.frame_buffer \ d.after.frame_buffer # {}
           /\ d.after.frame_buffer \ d.before.frame_buffer # {}

\* C28: for all register indices X, Y (0xF included) and all byte values,
\* with the registers as they were before the instruction: after 8XY4
\* V[F] = 1 iff V[X] + V[Y] > 255, after 8XY5 V[F] = 1 iff V[X] >= V[Y],
\* after 8XY7 V[F] = 1 iff V[Y] >= V[X]; V[F] is 0 or 1 and is written after
\* the result, so for X = 0xF it is the flag that stays; for X # 0xF V[X]
\* holds the result modulo 256; no other register changes
ArithmeticSetsFlagLast ==
    [][\A k \in DOMAIN last'.log :
          LET e == last'.log[k]
              d == e.detail
              X == (d.opcode \div 256) % 16
              Y == (d.opcode \div 16) % 16
              op == d.opcode % 16
              vx == d.before.v[X]
              vy == d.before.v[Y]
              flag == CASE op = 4 -> IF vx + vy > 255 THEN 1 ELSE 0
                        [] op = 5 -> IF vx >= vy THEN 1 ELSE 0
                        [] op = 7 -> IF vy >= vx THEN 1 ELSE 0
              result == CASE op = 4 -> (vx + vy) % 256
                          [] op = 5 -> (vx - vy + 256) % 256
                          [] op = 7 -> (vy - vx + 256) % 256
          IN (e.component = CpuId /\ d.fetched /\ d.opcode \div 4096 = 8
                /\ op \in {4, 5, 7}) =>
                /\ e.res = Ok
                /\ d.after.v[15] = flag
                /\ X # 15 => d.after.v[X] = result
                /\ \A r \in 0..14 : r # X => d.after.v[r] = d.before.v[r]
      ]_vars

\* 8FF5 with V[F] = 128: the difference 0 was written to V[F] first and the
\* flag 1 of "no borrow" after it
FlagOverwroteResult ==
    \E k \in DOMAIN last.log :
        LET e == last.log[k]
            d == e.detail
        IN /\ e.component = CpuId /\ d.fetched /\ e.res = Ok
           /\ d.opcode = 32768 + 256 * 15 + 16 * 15 + 5                  \* 8FF5
           /\ d.before.v[15] = 128 /\ d.after.v[15] = 1
\* C29: after 8XY6 / 8XYE V[F] equals the bit shifted out of the operand
\* (bit 0 for SHR, bit 7 for SHL), where the operand is V[Y] under the CHIP-8
\* profile and V[X] under the SUPER-CHIP profile, both as they were before
\* the instruction, and for X # 0xF V[X] equals that operand shifted by one
\* bit within 8 bits; no other register changes
ShiftFlagsBitShiftedOut ==
    [][\A k \in DOMAIN last'.log :
          LET e == last'.log[k]
              d == e.detail
              X == (d.opcode \div 256) % 16
              Y == (d.opcode \div 16) % 16
              op == d.opcode % 16
              operand == IF store'[CpuId].platform = SuperChip
                         THEN d.before.v[X] ELSE d.before.v[Y]
          IN (e.component = CpuId /\ d.fetched /\ d.opcode \div 4096 = 8
                /\ op \in {6, 14}) =>
                /\ e.res = Ok
                /\ d.after.v[15] = (IF op = 6 THEN operand % 2 ELSE operand \div 128)
                /\ X # 15 => d.after.v[X] = (IF op = 6 THEN operand \div 2
                                             ELSE (operand * 2) % 256)
                /\ \A r \in 0..14 : r # X => d.after.v[r] = d.before.v[r]
      ]_vars

\* 801E with V[0] = 1 and V[1] = 128 under the SUPER-CHIP profile: V[0] was
\* shifted in place (V[0] = 2, V[F] = 0), where the CHIP-8 shifts V[1]
ShiftedLeftOnEitherProfile ==
    \E k \in DOMAIN last.log :
        LET e == last.log[k]
            d == e.detail
        IN /\ e.component = CpuId /\ d.fetched /\ e.res = Ok
           /\ d.opcode = 32768 + 16 + 14                                 \* 801E
           /\ d.before.v[0] = 1 /\ d.before.v[1] = 128
           /\ store[CpuId].platform = SuperChip
           /\ d.after.v[0] = 2 /\ d.after.v[15] = 0
\* C30: after an FX55 or FX65 that returns Ok, I is unchanged when the quirk
\* loadstore_leaves_i_unmodified is true (SUPER-CHIP); otherwise (CHIP-8) I
\* has advanced by X + 1, or by X when loadstore_modifies_i_one_less is true;
\* FX55 wrote V0..VX to the memory bytes I..I+X of the old I and changed no
\* other byte and no register; FX65 read V0..VX from these bytes and changed
\* no other register and no byte
LoadStoreMovesI ==
    [][\A k \in DOMAIN last'.log :
          LET e == last'.log[k]
              d == e.detail
              X == (d.opcode \div 256) % 16
              nn == d.opcode % 256
              I == d.before.i
              quirks == store'[CpuId].quirks
              Mem(st, a) == IF a < RAM_BASE THEN ByteAt(st[1].data, a)
                            ELSE ByteAt(st[2].data, a - RAM_BASE)
              Memory == 0..(RAM_BASE + RAM_SIZE - 1)
          IN (e.component = CpuId /\ d.fetched /\ d.opcode \div 4096 = 15
                /\ nn \in {85, 101} /\ e.res = Ok) =>
                /\ quirks.quirks_loadstore_leaves_i_unmodified
                      = (store'[CpuId].platform = SuperChip)
                /\ d.after.i =
                      (IF quirks.quirks_loadstore_leaves_i_unmodified THEN I
                       ELSE IF quirks.quirks_loadstore_modifies_i_one_less THEN I + X
                       ELSE I + X + 1)
                /\ nn = 85 =>
                      /\ \A r \in 0..X : Mem(store', I + r) = d.before.v[r]
                      /\ \A a \in Memory \ (I..(I + X)) : Mem(store', a) = Mem(store, a)
                      /\ d.after.v = d.before.v
                /\ nn = 101 =>
                      /\ \A r \in 0..X : d.after.v[r] = Mem(store, I + r)
                      /\ \A r \in (X + 1)..15 : d.after.v[r] = d.before.v[r]
                      /\ \A a \in Memory : Mem(store', a) = Mem(store, a)
      ]_vars

\* F255 at I = 1FF on the CHIP-8: V0 = 11, V1 = 22, V2 = 00 went to the last
\* byte of the interpreter block and over the first two bytes 60 11 of the
\* ROM in the RAM, and I is 202
StoredAcrossBlocks ==
    \E k \in DOMAIN last.log :
        LET e == last.log[k]
            d == e.detail
        IN /\ e.component = CpuId /\ d.fetched /\ e.res = Ok
           /\ d.opcode = 61440 + 256 * 2 + 85                            \* F255
           /\ store[CpuId].platform = Chip8
           /\ d.before.i = 511 /\ d.after.i = 514
           /\ ByteAt(store[1].data, 511) = 17
           /\ ByteAt(store[2].data, 0) = 34 /\ ByteAt(store[2].data, 1) = 0
\* C31: BNNN sets PC to V[0] + NNN when the quirk jump_uses_x is false
\* (CHIP-8) and to V[(NNN >> 8) & 0xF] + NNN when it is true (SUPER-CHIP),
\* for every NNN, and the step completes without fault
JumpV0Completes ==
    \A k \in DOMAIN last.log :
        LET e == last.log[k]
            d == e.detail
            NNN == d.opcode % 4096
            register == IF store[CpuId].quirks.quirks_jump_uses_x
                        THEN (NNN \div 256) % 16 ELSE 0
        IN (e.component = CpuId /\ d.fetched /\ d.opcode \div 4096 = 11) =>
              /\ e.res = Ok
              /\ d.after.pc = d.before.v[register] + NNN
\* C32: FX29 sets I to FONT_BASE + 5 * V[X], the address of the glyph for the
\* value held in register X, for every register X and every V[X] in 0..0xF
FontOfRegisterValue ==
    \A k \in DOMAIN last.log :
        LET e == last.log[k]
            d == e.detail
            X == (d.opcode \div 256) % 16
        IN (e.component = CpuId /\ d.fetched /\ d.opcode \div 4096 = 15
              /\ d.opcode % 256 = 41 /\ d.before.v[X] \in 0..15) =>
              /\ e.res = Ok
              /\ d.after.i = FONT_BASE + 5 * d.before.v[X]
\* C33: a CPU step returns UnknownOpcode for every fetched word that matches
\* no row of the opcode decoding table (8XY8, 5XY1, 9XY1, EX00, FX00, ...) and
\* for no word that matches a row.  The rows: 0NNN, 1NNN .. 4XNN, 5XY0, 6XNN,
\* 7XNN, 8XY0 .. 8XY7, 8XYE, 9XY0, ANNN .. DXYN, EX9E, EXA1, FX07, FX0A, FX15,
\* FX18, FX1E, FX29, FX33, FX55, FX65.
UnknownIffOutsideTable ==
    \A k \in DOMAIN last.log :
        LET e == last.log[k]
            d == e.detail
            hi == d.opcode \div 4096
            N == d.opcode % 16
            NN == d.opcode % 256
            InTable == \/ hi \in {0, 1, 2, 3, 4, 6, 7, 10, 11, 12, 13}
                       \/ hi \in {5, 9} /\ N = 0
                       \/ hi = 8 /\ N \in (0..7) \cup {14}
                       \/ hi = 14 /\ NN \in {158, 161}
                       \/ hi = 15 /\ NN \in {7, 10, 21, 24, 30, 41, 51, 85, 101}
        IN (e.component = CpuId /\ d.fetched) =>
              ((e.res = UnknownOpcode) <=> ~InTable)
-----------------------------------------------------------------------------
(* The channels and the scheduler of the CHIP-8 backend, under SpecGuest *)

\* C34: the timestamps of the entries pushed to the frame channel, and of
\* those pushed to the audio channel, are non-decreasing in push order, and
\* each equals the backend clock of the step that produced the entry: after
\* a call, each channel holds what it held (less what left it at the front)
\* followed by one entry per Audio step, or per CPU step that executed CLS or
\* DXYN, of the call, stamped with the clock of that step
ChannelsStampedInOrder ==
    [][LET Pushed(queue, queue2, steps) ==
               LET n == Len(steps)
                   m == IF n < Len(queue2) THEN n ELSE Len(queue2)
                   kept == Len(queue2) - m
               IN /\ n > 0 => Len(queue2) >= 1
                  /\ \A i \in 1..m : queue2[kept + i][1] = steps[n - m + i].at
                  /\ kept <= Len(queue)
                  /\ \A j \in 1..kept : queue2[j] = queue[Len(queue) - kept + j]
                  /\ \A j \in 1..(Len(queue2) - 1) : queue2[j][1] <= queue2[j + 1][1]
           IsAudio(e) == e.component = AudioId /\ e.res = Ok
           IsFrame(e) == /\ e.component = CpuId /\ e.res = Ok /\ e.detail.fetched
                         /\ (e.detail.opcode = 224 \/ e.detail.opcode \div 4096 = 13)
       IN (last'.op \in {"step", "run_for"}) =>
             /\ Pushed(audio_queue, audio_queue', SelectSeq(last'.log, IsAudio))
             /\ Pushed(frame_queue, frame_queue', SelectSeq(last'.log, IsFrame))
             /\ \A k \in DOMAIN last'.log :
                   last'.log[k].at = last'.log[k].seen
      ]_vars

\* A frame of run_for whose draw came after the VBlank: the frame channel
\* holds two frames with different stamps, the audio channel the samples
\* of the call behind the earlier ones
SecondFrameStamped ==
    /\ last.op = "run_for"
    /\ Len(frame_queue) >= 2
    /\ frame_queue[Len(frame_queue) - 1][1] < frame_queue[Len(frame_queue)][1]
    /\ \E k \in DOMAIN last.log :
          /\ last.log[k].component = CpuId /\ last.log[k].detail.fetched
          /\ last.log[k].detail.opcode \div 4096 = 13
          /\ last.log[k].at = frame_queue[Len(frame_queue)][1]
    /\ Len(audio_queue) > Len(SelectSeq(last.log, LAMBDA e : e.component = AudioId))
\* C35: after every completed step(), successful or failing, every pending
\* scheduler event has a timestamp greater than or equal to the clock, and
\* every component was stepped at the clock its event was scheduled for,
\* never later; this holds as well when a component added to the running
\* backend has set the clock back
NoEventBehindClock ==
    (last.op \in {"step", "run_until", "run_for"} /\ last.log # <<>> /\ last.res # Panic) =>
        /\ \A k \in DOMAIN scheduler_queue : scheduler_queue[k].clock_cycle >= clock
        /\ \A k \in DOMAIN last.log :
              /\ last.log[k].seen = last.log[k].at
              /\ last.log[k].at = last.log[k].earliest
        /\ clock = last.log[Len(last.log)].at

\* A failing step() of a component added late: the clock was set back by
\* the step, and the failed event and another one are pending at or after it
FailedStepKeepsEventsAhead ==
    /\ last.op = "step" /\ last.res \notin {Ok, Panic}
    /\ clock < last.start
    /\ Len(scheduler_queue) >= 2
    /\ \E k \in DOMAIN scheduler_queue : scheduler_queue[k].clock_cycle = clock
    /\ \E k \in DOMAIN scheduler_queue : scheduler_queue[k].clock_cycle > last.start
\* C36: at the end of every CPU step, successful or failing,
\* waiting_for_vblank is false: only a DXYN that returns Ok under a profile
\* without draw_not_waiting_for_vblank sets it, and the same step clears it,
\* so only the step that drew is followed by another delay than the CPU
\* period
WaitForVBlankNeverPersists ==
    /\ ~store[CpuId].state.waiting_for_vblank
    /\ \A k \in DOMAIN last.log :
          LET e == last.log[k]
              d == e.detail
          IN e.component = CpuId =>
                /\ ~d.before.waiting_for_vblank
                /\ ~d.after.waiting_for_vblank
                /\ (e.res = Ok /\ e.dur # CLOCK_SPEED_NS) =>
                      /\ d.fetched /\ d.opcode \div 4096 = 13
                      /\ ~store[CpuId].quirks.quirks_draw_not_waiting_for_vblank

\* 6001 executed at the VBlank that followed a draw on the CHIP-8: the step
\* ran at 16,666,666 ns, with the flag down, and asks for the CPU period
StepAfterDrawNotDelayed ==
    /\ store[CpuId].platform = Chip8
    /\ \E k \in DOMAIN last.log :
          LET e == last.log[k]
          IN /\ e.component = CpuId /\ e.res = Ok /\ e.detail.fetched
             /\ e.detail.opcode = 24577                                  \* 6001
             /\ e.at = VBLANK_CLOCK_SPEED_NS
             /\ ~e.detail.before.waiting_for_vblank
             /\ e.dur = CLOCK_SPEED_NS
\* C37: on a CHIP-8 backend run_for(d) ends after finitely many steps with
\* the clock at clock + d or later, or with an error returned: every
\* duration that timer, CPU (the VBlank remainder included) and audio return
\* is strictly positive, and every step of the call but a failing last one
\* moved its component's event forward
RunForReachesOrReturnsError ==
    last.op = "run_for" =>
        /\ \/ last.res = Ok /\ clock >= last.start + last.arg
           \/ last.res \in {Misc, MemoryAccessOutOfBounds, MemoryAccessReadOnly,
                            UnknownOpcode}
        /\ \A k \in DOMAIN last.log :
              /\ last.log[k].res = Ok =>
                    last.log[k].dur > 0 /\ last.log[k].next > last.log[k].at
              /\ k < Len(last.log) => last.log[k].res = Ok
-----------------------------------------------------------------------------
(* Failing CPU steps: the frontend adds key events and calls run_for, and   *)
(* the guest program runs into a word that is no instruction or into an     *)
(* address where no word can be read.                                       *)

\*   F30A 8128: wait for a key into V3, then a word that is no instruction
\*   1FFF: jump to the last byte of the address space, where no word is read
FaultRoms == {RomOf(<<62218, 33064>>), RomFetchFault}

InitFault ==
    /\ \E rom_data \in FaultRoms : Start(CreateChip8Backend(rom_data, Chip8))
    /\ ringbuffer = RingbufferNew(0) /\ callers = <<>>
    /\ adds = 0
    /\ last = NoCall

SpecFault == InitFault /\ [][NextCpu]_vars

\* C38: when a CPU step fails on the opcode fetch, the CPU state is what
\* handle_input made of it at the start of the step, pc included; when it
\* fails with UnknownOpcode, pc is 2 further and the V registers, I, SP, the
\* stack, the frame buffer and the wait flags are as handle_input left them
FailedStepKeepsHandledState ==
    \A k \in DOMAIN last.log :
        LET e == last.log[k]
            d == e.detail
        IN e.component = CpuId =>
             /\ (~d.fetched /\ e.res \notin {Ok, Panic}) => d.after = d.handled
             /\ (d.fetched /\ e.res = UnknownOpcode) =>
                    /\ d.after.pc = d.handled.pc + 2
                    /\ d.after = [d.handled EXCEPT !.pc = d.after.pc]

\* a release ended the key wait and the word fetched next is no instruction
UnknownOpcodeAfterKeyRelease ==
    \E k \in DOMAIN last.log :
        LET e == last.log[k]
            d == e.detail
        IN /\ e.component = CpuId /\ d.fetched /\ e.res = UnknownOpcode
           /\ d.opcode = 33064                                          \* 8128
           /\ d.before.waiting_for_key = 3 /\ d.handled.waiting_for_key = NoKey
           /\ d.after.pc = 516

\* C38 as the spec words it: the state of a failed step compared with the
\* state at the start of the step
FailedStepKeepsStartState ==
    \A k \in DOMAIN last.log :
        LET e == last.log[k]
            d == e.detail
        IN e.component = CpuId =>
             /\ (~d.fetched /\ e.res \notin {Ok, Panic}) => d.after = d.before
             /\ (d.fetched /\ e.res = UnknownOpcode) =>
                    /\ d.after.pc = d.before.pc + 2
                    /\ d.after.v = d.before.v
                    /\ d.after.i = d.before.i
                    /\ d.after.sp = d.before.sp
                    /\ d.after.stack = d.before.stack
                    /\ d.after.frame_buffer = d.before.frame_buffer
                    /\ d.after.waiting_for_key = d.before.waiting_for_key
                    /\ d.after.waiting_for_vblank = d.before.waiting_for_vblank
-----------------------------------------------------------------------------
(* Subroutines: guest programs that nest CALLs and return from all of them. *)

\* The ROM with n nested subroutines:
\*   200: CALL 204    202: JP 202
\*   204 + 4(k-1): CALL 204 + 4k ; RET      for k < n
\*   204 + 4(n-1): RET
CallRom(n) ==
    RomOf(<<8708, 4610>>
          \o [k \in 1..(2 * (n - 1)) |->
                IF k % 2 = 1 THEN 8192 + 516 + 4 * ((k + 1) \div 2) ELSE 238]
          \o <<238>>)

InitCall ==
    /\ \E n \in {1, 2, MaxNesting - 1, MaxNesting} :
          Start(CreateChip8Backend(CallRom(n), Chip8))
    /\ ringbuffer = RingbufferNew(0) /\ callers = <<>>
    /\ adds = 0
    /\ last = NoCall

\* the frontend calls run_for for one frame or for many at once
NextCall ==
    \E duration \in {FrameTime, Millis(MaxCallMillis)} :
        DoRunFor(duration, Millis(MaxCallMillis))

SpecCall == InitCall /\ [][NextCall]_vars

\* C39: CALL NNN fetched at p with SP = s < 16 stores p + 2 in stack[s] and
\* sets SP = s + 1 and PC = NNN; a RET executed next restores PC = p + 2 and
\* SP = s; and the RET that closes a balanced sequence of CALLs and RETs
\* begun by that CALL, nested no deeper than the stack, does the same
CallAndReturnBalance ==
    LET cpu == SelectSeq(last.log, LAMBDA e : /\ e.component = CpuId
                                             /\ e.detail.fetched /\ e.res = Ok)
        IsCall(k) == cpu[k].detail.opcode \div 4096 = 2
        IsRet(k) == cpu[k].detail.opcode = 238
        \* CALLs less RETs among the first k instructions of the log
        depth == [k \in 0..Len(cpu) |->
                    Cardinality({m \in 1..k : IsCall(m)})
                    - Cardinality({m \in 1..k : IsRet(m)})]
    IN \A c \in DOMAIN cpu :
          LET d == cpu[c].detail
              p == d.before.pc
              s == d.before.sp
          IN (IsCall(c) /\ s < 16) =>
               /\ d.after.stack = [d.before.stack EXCEPT ![s] = p + 2]
               /\ d.after.sp = s + 1
               /\ d.after.pc = d.opcode % 4096
               /\ (c + 1 \in DOMAIN cpu /\ IsRet(c + 1)) =>
                      /\ cpu[c + 1].detail.after.pc = p + 2
                      /\ cpu[c + 1].detail.after.sp = s
               /\ \A r \in (c + 1)..Len(cpu) :
                      (/\ depth[r] = depth[c - 1]
                       /\ \A k \in c..(r - 1) :
                             /\ depth[k] > depth[c - 1]
                             /\ s + depth[k] - depth[c - 1] <= 16) =>
                         /\ cpu[r].detail.after.pc = p + 2
                         /\ cpu[r].detail.after.sp = s

\* one call of run_for has nested 16 CALLs and has returned from all of them
SixteenCallsReturned ==
    /\ last.op = "run_for"
    /\ \E c \in DOMAIN last.log :
          /\ last.log[c].component = CpuId /\ last.log[c].detail.fetched
          /\ last.log[c].detail.opcode = 8708                            \* 2204
          /\ last.log[c].detail.before.sp = 0
          /\ \E m \in (c + 1)..Len(last.log) :
                /\ last.log[m].component = CpuId /\ last.log[m].detail.fetched
                /\ last.log[m].detail.opcode \div 4096 = 2
                /\ last.log[m].detail.before.sp = 15
                /\ last.log[m].detail.after.sp = 16
                /\ \E r \in (m + 1)..Len(last.log) :
                      /\ last.log[r].component = CpuId /\ last.log[r].detail.fetched
                      /\ last.log[r].detail.opcode = 238                 \* 00EE
                      /\ last.log[r].detail.after.sp = 0
                      /\ last.log[r].detail.after.pc = 514
====
